---- MODULE Spec2Model ----
(***************************************************************************)
(* The multimodal retrieval orchestrator of the fashion chatbot backend:   *)
(* the LangGraph workflow (services/workflow.py), its agents               *)
(* (services/agents/*.py) and the session memory                           *)
(* (services/memory_service.py).                                           *)
(*                                                                         *)
(* Python strings are TLA+ strings; the string methods the code uses       *)
(* (strip, lower, split, in, startswith) are the operators below.          *)
(* Python's None is the value None.                                        *)
(***************************************************************************)
EXTENDS Integers, Sequences, FiniteSets, TLC

None == "<None>"

(***************************************************************************)
(* Bounds of the model.                                                    *)
(***************************************************************************)
\* requests served in one behaviour
MaxRequests == 2
\* clock ticks in one behaviour
MaxTicks == 1
\* requests served in one behaviour of the liveness specification
LiveRequests == 1
\* length of the over-long generator replies
LongReply == 11

(***************************************************************************)
(* Python string methods.                                                  *)
(***************************************************************************)
Chr(s, i) == SubSeq(s, i, i)

\* F applied to the value of x, the value computed once
With(x, F(_)) == CHOOSE r \in { F(v) : v \in {x} } : TRUE

UpperAlpha == "ABCDEFGHIJKLMNOPQRSTUVWXYZ"
LowerAlpha == "abcdefghijklmnopqrstuvwxyz"

UpperLetters == { Chr(UpperAlpha, i) : i \in 1..26 }
LowerLetters == { Chr(LowerAlpha, i) : i \in 1..26 }

\* the lowercase letter of each uppercase letter
LowerOf ==
    [c \in UpperLetters |->
        Chr(LowerAlpha, CHOOSE i \in 1..26 : Chr(UpperAlpha, i) = c)]

\* the upper-case letter of each lower-case letter
UpperOf ==
    [c \in LowerLetters |->
        Chr(UpperAlpha, CHOOSE i \in 1..26 : Chr(LowerAlpha, i) = c)]

LowerChar(c) == IF c \in UpperLetters THEN LowerOf[c] ELSE c

UpperChar(c) == IF c \in LowerLetters THEN UpperOf[c] ELSE c

RECURSIVE UpperFrom(_, _)
\* the characters of s from position i on, in upper case
UpperFrom(s, i) ==
    IF i > Len(s) THEN "" ELSE UpperChar(Chr(s, i)) \o UpperFrom(s, i + 1)

\* str.upper
upper(s) == With(s, LAMBDA v : UpperFrom(v, 1))

RECURSIVE LowerFrom(_, _)
\* the characters of s from position i on, in lower case
LowerFrom(s, i) ==
    IF i > Len(s) THEN "" ELSE LowerChar(Chr(s, i)) \o LowerFrom(s, i + 1)

\* str.lower
lower(s) == With(s, LAMBDA v : LowerFrom(v, 1))

\* the positions of s that hold no blank
NonBlank(s) == { i \in 1..Len(s) : Chr(s, i) # " " }

\* s without its leading and trailing blanks, keep being NonBlank(s)
Trimmed(s, keep) ==
    IF keep = {} THEN ""
    ELSE SubSeq(s, CHOOSE i \in keep : \A j \in keep : i <= j,
                   CHOOSE i \in keep : \A j \in keep : j <= i)

\* str.strip
strip(s) ==
    With(s, LAMBDA v : With(NonBlank(v), LAMBDA keep : Trimmed(v, keep)))

\* kw in s, for two strings
Contains(s, kw) ==
    \E v \in {s}, k \in {kw} :
        \E i \in 1..(Len(v) - Len(k) + 1) : SubSeq(v, i, i + Len(k) - 1) = k

\* str.startswith
startswith(s, p) ==
    \E v \in {s}, k \in {p} : Len(k) <= Len(v) /\ SubSeq(v, 1, Len(k)) = k

\* the k-th smallest element of a set of numbers
Kth(set, k) == CHOOSE i \in set : Cardinality({ j \in set : j <= i }) = k

\* the tokens of s that start at the positions starts and end at ends
Tokens(s, starts, ends) ==
    [k \in 1..Cardinality(starts) |-> SubSeq(s, Kth(starts, k), Kth(ends, k))]

\* s.split(): the whitespace-separated tokens of s
split(s) ==
    With(s, LAMBDA v :
      With({ i \in NonBlank(v) : i = 1 \/ Chr(v, i - 1) = " " },
           LAMBDA starts :
      With({ i \in NonBlank(v) : i = Len(v) \/ Chr(v, i + 1) = " " },
           LAMBDA ends : Tokens(v, starts, ends))))

\* x in list
InList(x, list) == \E v \in {x}, l \in {list} : \E i \in 1..Len(l) : l[i] = v

\* any(kw in s for kw in list)
AnyContained(s, list) ==
    \E v \in {s} : \E i \in 1..Len(list) : Contains(v, list[i])

\* truthiness of an Optional[str]
Truthy(v) == v # None /\ v # ""

(***************************************************************************)
(* Inputs of a request and outcomes of the external collaborators.         *)
(***************************************************************************)
\* the texts of the requests of the workflow specification
UserTexts == { "", "hello", "white", "tshirt" }

\* the texts whose plans the planner specification explores
PlannerTexts ==
    { "", "white", " White ", "blue shirt", "tshirt", "white leather jacket",
      "women shirt", "her and his watch", "wedding outfit for men",
      "black shirt for the office", "like this", "office handbag",
      "what about red" }

ImageInputs == { None, "upload.jpg" }

\* the gender selections of the workflow specification
UserGenders == { "men", "both" }

\* the gender selections the planner specification explores
PlannerGenders == { "men", "women", "both", "unisex" }

SessionIds == { "", "s1" }

\* what CLIP says of the uploaded image: fashion, not fashion, or it raises
ValidatorOutcomes == { "fashion", "non_fashion", "error" }

\* the top-5 attributes joined, or "raise" when the description step fails
DescriptionOutcomes == { "shirt blue casual formal summer", "raise" }

\* the label of the BERT classifier
BertLabels == { "fashion", "non-fashion" }

(***************************************************************************)
(* State.                                                                  *)
(***************************************************************************)
VARIABLES
    state,      \* the AgentState of the request in flight
    node,       \* the graph node the driver runs next; END when the run is over
    trail,      \* the nodes the driver has run for this request, in order
    sessions,   \* MemoryService._sessions: session id -> SessionContext or None
    now,        \* time.time()
    requests,   \* requests served so far
    ticks,      \* clock ticks so far
    store,      \* the FAISSManager singleton
    call,       \* the last call of a MemoryService or FAISSManager method
    disk,       \* the index file and the metadata file on disk
    threads,    \* the requests served in parallel: where each one stands
    lock        \* MemoryService._lock: the thread that holds it, or None

\* no method called yet
NoCall == [op |-> None]

\* a file that does not exist
NoFile == [exists |-> FALSE, readable |-> FALSE, rows |-> <<>>]

\* neither artifact on disk
NoDisk == [index |-> NoFile, metadata |-> NoFile]

\* no request in flight
NoThreads == <<>>

END == "__end__"
KeyError == "KeyError"

Nodes ==
    { "image_fashion_validator", "image_to_description",
      "non_relevant_image_agent", "intent_classifier", "welcome_agent",
      "non_relevant_agent", "smart_query_understanding", "search_executor" }

\* state['messages'].append(m)
Append_message(s, m) == [s EXCEPT !.messages = Append(@, m)]

(***************************************************************************)
(* models/schemas.py                                                       *)
(***************************************************************************)
create_initial_state(user_text, image_path, user_gender) ==
    [ user_input              |-> IF Truthy(user_text) THEN user_text ELSE "",
      image_input             |-> image_path,
      image_embedding         |-> None,
      is_fashion_image        |-> None,
      image_validation_reason |-> None,
      image_description       |-> None,
      text_query              |-> None,
      intent                  |-> None,
      messages                |-> <<>>,
      final_response          |-> None,
      next_agent              |-> None,
      search_queries          |-> <<>>,
      search_results_data     |-> <<>>,
      query_categories        |-> <<>>,
      intent_type             |-> None,
      search_mode             |-> None,
      detected_gender         |-> user_gender,
      gender_source           |-> "user_selection",
      session_id              |-> "" ]

(***************************************************************************)
(* services/workflow.py                                                    *)
(***************************************************************************)
route_agent(s) == s.next_agent

\* the path maps of add_conditional_edges; a key outside the map is an error
ConditionalEdges(n, key) ==
    CASE n = "image_fashion_validator" ->
           (CASE key = "image_to_description"     -> "image_to_description"
              [] key = "non_relevant_image_agent" -> "non_relevant_image_agent"
              [] key = "intent_classifier"        -> "intent_classifier"
              [] key = "end"                      -> END
              [] OTHER                            -> KeyError)
      [] n = "non_relevant_image_agent" ->
           (IF key = "end" THEN END ELSE KeyError)
      [] n = "image_to_description" ->
           (CASE key = "intent_classifier" -> "intent_classifier"
              [] key = "end"               -> END
              [] OTHER                     -> KeyError)
      [] n = "intent_classifier" ->
           (CASE key = "welcome_agent"      -> "welcome_agent"
              [] key = "non_relevant_agent" -> "non_relevant_agent"
              [] key = "fashion_classifier" -> "smart_query_understanding"
              [] key = "end"                -> END
              [] OTHER                      -> KeyError)
      [] n = "welcome_agent" ->
           (IF key = "end" THEN END ELSE KeyError)
      [] n = "non_relevant_agent" ->
           (IF key = "end" THEN END ELSE KeyError)

\* a graph whose planner edge goes to END: the retrieval stage is skipped
NextNodeSkipsRetrieval(n, s) ==
    CASE n = "smart_query_understanding" -> END
      [] n = "search_executor"           -> END
      [] OTHER                           -> ConditionalEdges(n, route_agent(s))

\* a graph whose retrieval stage retries the planner when it found nothing
NextNodeRetriesPlanner(n, s) ==
    CASE n = "smart_query_understanding" -> "search_executor"
      [] n = "search_executor" ->
           (IF s.search_results_data = <<>> THEN "smart_query_understanding"
            ELSE END)
      [] OTHER                           -> ConditionalEdges(n, route_agent(s))

\* the node the driver runs after n, whose handler left the state s
NextNode(n, s) ==
    CASE n = "smart_query_understanding" -> "search_executor"
      [] n = "search_executor"           -> END
      [] OTHER                           -> ConditionalEdges(n, route_agent(s))

EntryPoint == "image_fashion_validator"

(***************************************************************************)
(* services/agents/image_validator.py                                      *)
(***************************************************************************)
\* a validator that classifies the image without keeping its embedding
image_fashion_validator_agentNoEmbedding(s, outcome) ==
    IF ~Truthy(s.image_input)
    THEN Append_message(
           [s EXCEPT !.is_fashion_image = None,
                     !.image_embedding  = None,
                     !.text_query = IF strip(s.user_input) # ""
                                    THEN strip(s.user_input) ELSE "hello",
                     !.next_agent = "intent_classifier"],
           "No image - text mode")
    ELSE IF outcome = "error"
    THEN Append_message(
           [s EXCEPT !.is_fashion_image = "False",
                     !.image_embedding  = None,
                     !.image_validation_reason = "Error",
                     !.next_agent = "non_relevant_image_agent"],
           "Image error")
    ELSE Append_message(
           [s EXCEPT !.is_fashion_image =
                         IF outcome = "fashion" THEN "True" ELSE "False",
                     !.image_validation_reason = "F, NF | Top",
                     !.next_agent =
                         IF outcome = "fashion" THEN "image_to_description"
                         ELSE "non_relevant_image_agent"],
           IF outcome = "fashion" THEN "Fashion image" ELSE "Non-fashion")

\* a validator that lets the text of the request through when the image
\* cannot be read
image_fashion_validator_agentErrorToText(s, outcome) ==
    IF ~Truthy(s.image_input) \/ outcome = "error"
    THEN Append_message(
           [s EXCEPT !.is_fashion_image =
                         IF Truthy(s.image_input) THEN "False" ELSE None,
                     !.image_embedding  = None,
                     !.text_query = IF strip(s.user_input) # ""
                                    THEN strip(s.user_input) ELSE "hello",
                     !.next_agent = "intent_classifier"],
           "No image - text mode")
    ELSE Append_message(
           [s EXCEPT !.image_embedding  = "image_vector",
                     !.is_fashion_image =
                         IF outcome = "fashion" THEN "True" ELSE "False",
                     !.image_validation_reason = "F, NF | Top",
                     !.next_agent =
                         IF outcome = "fashion" THEN "image_to_description"
                         ELSE "non_relevant_image_agent"],
           IF outcome = "fashion" THEN "Fashion image" ELSE "Non-fashion")

image_fashion_validator_agent(s, outcome) ==
    IF ~Truthy(s.image_input)
    THEN Append_message(
           [s EXCEPT !.is_fashion_image = None,
                     !.image_embedding  = None,
                     !.text_query = IF strip(s.user_input) # ""
                                    THEN strip(s.user_input) ELSE "hello",
                     !.next_agent = "intent_classifier"],
           "No image - text mode")
    ELSE IF outcome = "error"
    THEN Append_message(
           [s EXCEPT !.is_fashion_image = "False",
                     !.image_embedding  = None,
                     !.image_validation_reason = "Error",
                     !.next_agent = "non_relevant_image_agent"],
           "Image error")
    ELSE Append_message(
           [s EXCEPT !.image_embedding  = "image_vector",
                     !.is_fashion_image =
                         IF outcome = "fashion" THEN "True" ELSE "False",
                     !.image_validation_reason = "F, NF | Top",
                     !.next_agent =
                         IF outcome = "fashion" THEN "image_to_description"
                         ELSE "non_relevant_image_agent"],
           IF outcome = "fashion" THEN "Fashion image" ELSE "Non-fashion")

(***************************************************************************)
(* services/agents/image_description.py                                    *)
(***************************************************************************)
image_to_description_agent(s, outcome) ==
    LET user_text == strip(s.user_input)
        s1 == IF Truthy(s.image_input) /\ s.is_fashion_image = "True"
              THEN IF outcome = "raise"
                   THEN Append_message(
                          [s EXCEPT !.text_query =
                              IF user_text # "" THEN user_text
                              ELSE "fashion items"],
                          "Image desc error")
                   ELSE IF user_text # ""
                   THEN Append_message(
                          [s EXCEPT !.image_description = outcome,
                                    !.text_query = user_text],
                          "Text + Image")
                   ELSE Append_message(
                          [s EXCEPT !.image_description = outcome,
                                    !.text_query = outcome],
                          "Image query")
              ELSE Append_message(
                     [s EXCEPT !.text_query =
                         IF user_text # "" THEN user_text ELSE "hello"],
                     "Text mode")
    IN  [s1 EXCEPT !.next_agent = "intent_classifier"]

(***************************************************************************)
(* services/agents/intent_classifier.py                                    *)
(***************************************************************************)
WELCOME_PATTERNS ==
    << "hi", "hello", "hey", "hii", "hiii",
       "good morning", "good evening", "good afternoon", "good night",
       "what can you", "who are you", "what do you do", "help me",
       "greetings", "howdy", "sup", "yo", "hola",
       "thank you", "thanks", "bye", "goodbye", "see you",
       "how are you", "what's up", "whats up" >>

fashion_keywords ==
    << "shirt", "tshirt", "t-shirt", "dress", "jeans", "pants", "shorts",
       "jacket", "coat", "sweater", "hoodie", "skirt", "blouse", "top",
       "kurta", "saree", "lehenga", "suit", "blazer", "trouser", "legging",
       "watch", "bag", "shoe", "sandal", "heel", "sneaker", "boot",
       "sunglasses", "belt", "scarf", "hat", "cap", "jewelry",
       "want", "need", "looking for", "find", "show", "search", "buy",
       "recommend", "suggest", "get me", "i need", "give me",
       "casual", "formal", "party", "wedding", "summer", "winter", "outfit" >>

has_fashion_signals(query) == AnyContained(query, fashion_keywords)

is_pure_greeting(query) ==
    \E q \in {query} :
        \E i \in 1..Len(WELCOME_PATTERNS) :
            /\ startswith(q, WELCOME_PATTERNS[i]) \/ q = WELCOME_PATTERNS[i]
            /\ ~has_fashion_signals(q)

intent_classifier_agent(s, label) ==
    LET query      == strip(lower(s.text_query))
        is_fashion == InList(lower(label), <<"fashion", "label_1", "1", "true">>)
    IN  IF query = "" /\ s.is_fashion_image = "True"
        THEN Append_message(
               [s EXCEPT !.intent = "relevant_fashion",
                         !.next_agent = "fashion_classifier"],
               "Fashion detected (image only)")
        ELSE IF query = ""
        THEN Append_message(
               [s EXCEPT !.intent = "non_relevant",
                         !.next_agent = "non_relevant_agent"],
               "No query provided")
        ELSE IF is_pure_greeting(query)
        THEN Append_message(
               [s EXCEPT !.intent = "welcome",
                         !.next_agent = "welcome_agent"],
               "Welcome intent (pure greeting)")
        ELSE IF is_fashion
        THEN Append_message(
               [s EXCEPT !.intent = "relevant_fashion",
                         !.next_agent = "fashion_classifier"],
               "Fashion intent (BERT)")
        ELSE IF s.is_fashion_image = "True"
        THEN Append_message(
               [s EXCEPT !.intent = "relevant_fashion",
                         !.next_agent = "fashion_classifier"],
               "Fashion (image override)")
        ELSE Append_message(
               [s EXCEPT !.intent = "non_relevant",
                         !.next_agent = "non_relevant_agent"],
               "Non-fashion (BERT)")

(***************************************************************************)
(* services/agents/response_agents.py                                      *)
(***************************************************************************)
welcome_agent(s) ==
    Append_message(
      [s EXCEPT !.final_response = "Hello! I'm your Personal AI Stylist.",
                !.next_agent = "end"],
      "Ended: Welcome message")

non_relevant_agent(s) ==
    Append_message(
      [s EXCEPT !.final_response = "I'm focused on fashion and style!",
                !.next_agent = "end"],
      "Ended: Non-fashion query")

\* a rejection of the image that leaves the response text unset
non_relevant_image_agentSilent(s) ==
    Append_message([s EXCEPT !.next_agent = "end"], "Ended: Non-fashion image")

non_relevant_image_agent(s) ==
    Append_message(
      [s EXCEPT !.final_response = "Non-Fashion Image Detected",
                !.next_agent = "end"],
      "Ended: Non-fashion image")


(***************************************************************************)
(* services/memory_service.py                                              *)
(***************************************************************************)
SESSION_TTL == 30 * 60

MAX_HISTORY == 5

\* SessionContext(), created at time t
SessionContext(t) ==
    [ last_item_type |-> None,
      last_color     |-> None,
      last_gender    |-> None,
      last_query     |-> None,
      last_updated   |-> t,
      history        |-> <<>> ]

\* the last n entries of a list: list[-n:]
LastN(list, n) ==
    IF Len(list) > n THEN SubSeq(list, Len(list) - n + 1, Len(list)) ELSE list

\* del d[key]
DictDel(d, key) == [k \in DOMAIN d \ {key} |-> d[k]]

\* d[key] = value
DictSet(d, key, value) ==
    [k \in DOMAIN d \cup {key} |-> IF k = key THEN value ELSE d[k]]

\* get_context with a session expiring as soon as its age reaches the TTL
get_contextExpiresAtTTL(map, session_id, t) ==
    IF session_id \notin DOMAIN map
    THEN [found |-> FALSE, ctx |-> SessionContext(0), map |-> map]
    ELSE IF t - map[session_id].last_updated >= SESSION_TTL
    THEN [found |-> FALSE, ctx |-> SessionContext(0),
          map |-> DictDel(map, session_id)]
    ELSE [found |-> TRUE, ctx |-> map[session_id], map |-> map]

\* MemoryService.get_context: the context returned (found: it is not None)
\* and the map the call leaves
get_context(map, session_id, t) ==
    IF session_id \notin DOMAIN map
    THEN [found |-> FALSE, ctx |-> SessionContext(0), map |-> map]
    ELSE IF t - map[session_id].last_updated > SESSION_TTL
    THEN [found |-> FALSE, ctx |-> SessionContext(0),
          map |-> DictDel(map, session_id)]
    ELSE [found |-> TRUE, ctx |-> map[session_id], map |-> map]

\* update_context with a history that keeps its oldest entries
update_contextOldest(map, session_id, query, item_type, color, gender, t) ==
    LET ctx  == IF session_id \in DOMAIN map THEN map[session_id]
                ELSE SessionContext(t)
        hist == Append(ctx.history, query)
        new  == [ last_item_type |-> IF Truthy(item_type) THEN item_type
                                     ELSE ctx.last_item_type,
                  last_color     |-> IF Truthy(color) THEN color
                                     ELSE ctx.last_color,
                  last_gender    |-> IF Truthy(gender) THEN gender
                                     ELSE ctx.last_gender,
                  last_query     |-> query,
                  last_updated   |-> t,
                  history        |-> IF Len(hist) > MAX_HISTORY
                                     THEN SubSeq(hist, 1, MAX_HISTORY)
                                     ELSE hist ]
    IN  DictSet(map, session_id, new)

\* MemoryService.update_context: the map it leaves
update_context(map, session_id, query, item_type, color, gender, t) ==
    LET ctx  == IF session_id \in DOMAIN map THEN map[session_id]
                ELSE SessionContext(t)
        hist == Append(ctx.history, query)
        new  == [ last_item_type |-> IF Truthy(item_type) THEN item_type
                                     ELSE ctx.last_item_type,
                  last_color     |-> IF Truthy(color) THEN color
                                     ELSE ctx.last_color,
                  last_gender    |-> IF Truthy(gender) THEN gender
                                     ELSE ctx.last_gender,
                  last_query     |-> query,
                  last_updated   |-> t,
                  history        |-> IF Len(hist) > MAX_HISTORY
                                     THEN LastN(hist, MAX_HISTORY) ELSE hist ]
    IN  DictSet(map, session_id, new)

\* MemoryService.clear_session: the map it leaves
clear_session(map, session_id) ==
    IF session_id \in DOMAIN map THEN DictDel(map, session_id) ELSE map

\* MemoryService.cleanup_expired: the map it leaves
cleanup_expired(map, t) ==
    [sid \in {k \in DOMAIN map : ~(t - map[k].last_updated > SESSION_TTL)}
        |-> map[sid]]

(***************************************************************************)
(* services/agents/query_understanding.py                                  *)
(***************************************************************************)
attribute_keywords ==
    << "white", "black", "red", "blue", "green", "yellow", "pink", "purple",
       "beige", "brown", "grey", "gray", "orange", "gold", "silver",
       "cheap", "expensive", "cotton", "silk", "denim", "leather",
       "casual", "formal", "summer", "winter" >>

male_keywords ==
    << "men", "man", "male", "guy", "boy", "gentleman", "his", "he", "him" >>

female_keywords ==
    << "women", "woman", "female", "girl", "lady", "her", "she" >>

item_types ==
    << "shirt", "tshirt", "jeans", "pants", "trousers", "dress", "skirt",
       "shoes", "sneakers", "boots", "heels", "jacket", "coat", "blazer",
       "watch", "bag", "handbag", "belt", "scarf", "hat", "cap",
       "suit", "tuxedo", "shorts", "leggings", "sweater", "hoodie" >>

outfit_keywords == << "wedding", "party", "office", "recommend", "outfit" >>

similar_phrases == << "similar", "like this", "same", "" >>

MaxSubQueries == 10

\* query = state.get('text_query', '').strip().lower()
PlannerQuery(s) == lower(strip(s.text_query))

\* has_image = state.get('is_fashion_image') == True
HasImage(s) == s.is_fashion_image = "True"

\* a short-query test that lets three tokens through
IsFollowUpThreeTokens(query, previous_item, has_image) ==
    /\ Len(split(query)) <= 3
    /\ AnyContained(query, attribute_keywords)
    /\ Truthy(previous_item)
    /\ ~has_image

\* STEP 0: whether the query is merged with the remembered item type
IsFollowUp(query, previous_item, has_image) ==
    /\ Len(split(query)) <= 2
    /\ AnyContained(query, attribute_keywords)
    /\ Truthy(previous_item)
    /\ ~has_image

MergedQuery(query, previous_item) == query \o " " \o previous_item

\* any(kw in query_words for kw in keywords)
HasKeywordToken(query, keywords) ==
    \E i \in 1..Len(keywords) : InList(keywords[i], split(query))

\* STEP 1: the gender read in the query text, None when there is none
DetectedGenderText(query) ==
    LET has_male   == HasKeywordToken(query, male_keywords)
        has_female == HasKeywordToken(query, female_keywords)
    IN  CASE has_male /\ ~has_female -> "men"
          [] has_female /\ ~has_male -> "women"
          [] has_male /\ has_female  -> "both"
          [] OTHER                   -> None

\* a resolution that looks at the caller's selection before the query text
ResolveGenderSelectionFirst(query, user_selected_gender, user_gender_source) ==
    LET detected_gender_text == DetectedGenderText(query)
    IN  IF /\ Truthy(user_selected_gender)
           /\ user_selected_gender # "both"
           /\ user_gender_source = "user_selection"
        THEN [gender |-> user_selected_gender, source |-> "user_selection"]
        ELSE IF Truthy(detected_gender_text)
        THEN [gender |-> detected_gender_text, source |-> "query_text"]
        ELSE [gender |-> "both", source |-> "default_both"]

\* STEP 1: final gender and its source
ResolveGender(query, user_selected_gender, user_gender_source) ==
    LET detected_gender_text == DetectedGenderText(query)
    IN  IF Truthy(detected_gender_text)
        THEN [gender |-> detected_gender_text, source |-> "query_text"]
        ELSE IF /\ Truthy(user_selected_gender)
                /\ user_selected_gender # "both"
                /\ user_gender_source = "user_selection"
        THEN [gender |-> user_selected_gender, source |-> "user_selection"]
        ELSE [gender |-> "both", source |-> "default_both"]

\* the trace entry of the gender decision
GenderUseMessage(res) ==
    CASE res.source = "query_text" ->
           "Using gender from query: " \o upper(res.gender)
      [] res.source = "user_selection" ->
           "Using dropdown selection: " \o upper(res.gender)
      [] OTHER -> "No gender specified -> Showing BOTH genders"

\* the trace entry of the scenario
ModeMessage(mode) ==
    CASE mode = "image_only" ->
           "Image-only search mode: Generating diverse queries from image"
      [] mode = "hybrid" -> "Hybrid mode: Text + Image (70% text, 30% image)"
      [] OTHER -> "Text-only mode"

GenderTextMessage(query) ==
    LET g == DetectedGenderText(query)
    IN  CASE g = "men"   -> "Query text: Detected MALE gender"
          [] g = "women" -> "Query text: Detected FEMALE gender"
          [] g = "both"  -> "Query text: Both genders mentioned"
          [] OTHER       -> "Query text: No gender detected"

\* a scenario detection whose token threshold is off by one
SearchModeOffByOne(has_image, query) ==
    IF has_image /\ (\/ query = ""
                     \/ InList(query, similar_phrases)
                     \/ Len(split(query)) < 2)
    THEN "image_only"
    ELSE IF has_image /\ query # "" /\ Len(split(query)) >= 2
    THEN "hybrid"
    ELSE "text_only"

\* STEP 2: scenario detection
SearchMode(has_image, query) ==
    IF has_image /\ (\/ query = ""
                     \/ InList(query, similar_phrases)
                     \/ Len(split(query)) <= 2)
    THEN "image_only"
    ELSE IF has_image /\ query # "" /\ Len(split(query)) > 2
    THEN "hybrid"
    ELSE "text_only"

\* list[:n]
FirstN(list, n) == IF Len(list) > n THEN SubSeq(list, 1, n) ELSE list

RECURSIVE Flatten(_)
\* the queries of the categories of an outfit plan, in order
Flatten(categories) ==
    IF categories = <<>> THEN <<>>
    ELSE Head(categories).queries \o Flatten(Tail(categories))

RECURSIVE FlattenNamesPerCategory(_)
\* one name per category of an outfit plan, however many queries it holds
FlattenNamesPerCategory(categories) ==
    IF categories = <<>> THEN <<>>
    ELSE << Head(categories).category >>
         \o FlattenNamesPerCategory(Tail(categories))

RECURSIVE FlattenNames(_)
\* the category name of each query of an outfit plan, in order
FlattenNames(categories) ==
    IF categories = <<>> THEN <<>>
    ELSE [i \in 1..Len(Head(categories).queries) |-> Head(categories).category]
         \o FlattenNames(Tail(categories))

\* the generator's reply handled without an exception (lines 275-302)
GeneratorResult(s, query, reply) ==
    IF reply.intent = "outfit_recommendation"
    THEN Append_message(
           [s EXCEPT !.search_queries   = Flatten(reply.categories),
                     !.query_categories = FlattenNames(reply.categories),
                     !.intent_type      = "recommendation"],
           "Gemini: " \o ToString(Len(Flatten(reply.categories)))
              \o " gender-aware queries")
    ELSE LET queries == IF reply.queries = <<>>
                        THEN << IF query # "" THEN query ELSE "fashion items" >>
                        ELSE reply.queries
             capped  == FirstN(queries, MaxSubQueries)
         IN  Append_message(
               [s EXCEPT !.search_queries   = capped,
                         !.query_categories =
                             [i \in 1..Len(capped) |-> "general"],
                         !.intent_type      = reply.intent],
               "Gemini: " \o ToString(Len(capped)) \o " queries")

\* prefixes with the two genders in the other order
GenderPrefixesWomenFirst(final_gender) ==
    CASE final_gender = "both"  -> <<"women", "men">>
      [] final_gender = "men"   -> <<"men">>
      [] final_gender = "women" -> <<"women">>
      [] OTHER                  -> <<"women", "men">>

\* the gender prefixes of the fallback (lines 310-318)
GenderPrefixes(final_gender) ==
    CASE final_gender = "both"  -> <<"men", "women">>
      [] final_gender = "men"   -> <<"men">>
      [] final_gender = "women" -> <<"women">>
      [] OTHER                  -> <<"men", "women">>

OutfitTemplate(gender_prefix) ==
    << gender_prefix \o " formal shirt",
       gender_prefix \o " dress pants",
       gender_prefix \o " formal shoes",
       gender_prefix \o " leather belt",
       gender_prefix \o " formal watch" >>

\* the template's categories with footwear and accessories swapped
OutfitCategoriesSwapped ==
    << "top", "bottom", "accessories", "footwear", "watches" >>

OutfitCategories == << "top", "bottom", "footwear", "accessories", "watches" >>

RECURSIVE ConcatMap(_, _)
\* the lists f[x] of the entries x of a list, joined in order
ConcatMap(f, list) ==
    IF list = <<>> THEN <<>> ELSE f[Head(list)] \o ConcatMap(f, Tail(list))

\* the rule-based fallback (lines 304-337)
Fallback(s, query, final_gender) ==
    LET gender_prefixes == GenderPrefixes(final_gender)
        s1 == Append_message(s, "Gemini failed -> Rule-based fallback")
    IN  IF AnyContained(query, outfit_keywords)
        THEN [s1 EXCEPT
               !.search_queries =
                   ConcatMap([gp \in {"men", "women"} |-> OutfitTemplate(gp)],
                             gender_prefixes),
               !.query_categories =
                   ConcatMap([gp \in {"men", "women"} |-> OutfitCategories],
                             gender_prefixes),
               !.intent_type = "recommendation"]
        ELSE [s1 EXCEPT
               !.search_queries =
                   [i \in 1..Len(gender_prefixes) |->
                       gender_prefixes[i] \o " " \o query],
               !.query_categories =
                   [i \in 1..Len(gender_prefixes) |-> "general"],
               !.intent_type = "direct_search"]

\* found_item = next((item for item in item_types if item in query), None)
FoundItem(query) ==
    IF AnyContained(query, item_types)
    THEN item_types[CHOOSE i \in 1..Len(item_types) :
                       /\ Contains(query, item_types[i])
                       /\ \A j \in 1..(i - 1) : ~Contains(query, item_types[j])]
    ELSE None

\* STEP 4: the session map after the memory update
MemoryUpdate(map, session_id, context, query, final_gender, t) ==
    IF session_id = "" THEN map
    ELSE IF Truthy(FoundItem(query))
    THEN update_context(map, session_id, query, FoundItem(query), None,
                        final_gender, t)
    ELSE IF context.found /\ Truthy(context.ctx.last_item_type)
    THEN update_context(map, session_id, query, context.ctx.last_item_type, None,
                        final_gender, t)
    ELSE map

\* STEP 0: the state and the query after the follow-up merge
MergeStep(s, context) ==
    LET query0        == PlannerQuery(s)
        previous_item == IF context.found THEN context.ctx.last_item_type
                         ELSE None
        query         == MergedQuery(query0, previous_item)
    IN  IF IsFollowUp(query0, previous_item, HasImage(s))
        THEN [ state |-> [Append_message(s,
                            "Memory: Merged '" \o query0 \o "' + '"
                              \o previous_item \o "' -> '" \o query \o "'")
                          EXCEPT !.text_query = query],
               query |-> query ]
        ELSE [ state |-> s, query |-> query0 ]

\* STEP 1: the state after the gender decision res
GenderStep(s, query, res) ==
    [Append_message(Append_message(s, GenderTextMessage(query)),
                    GenderUseMessage(res))
     EXCEPT !.detected_gender = res.gender,
            !.gender_source   = res.source]

\* STEP 2: the state after the scenario detection
ScenarioStep(s, mode) ==
    [Append_message(s, ModeMessage(mode))
     EXCEPT !.search_mode = mode,
            !.intent_type = IF mode = "image_only" THEN "image_search"
                            ELSE s.intent_type]

\* STEP 3: the state after the generator call, or after the fallback
GeneratorStep(s, query, final_gender, reply) ==
    IF reply.raises THEN Fallback(s, query, final_gender)
    ELSE GeneratorResult(s, query, reply)

\* the whole agent: the state and the session map it leaves
smart_query_understanding_agent(s, map, t, reply) ==
    With(IF s.session_id # "" THEN get_context(map, s.session_id, t)
         ELSE [found |-> FALSE, ctx |-> SessionContext(0), map |-> map],
         LAMBDA context :
    With(MergeStep(s, context), LAMBDA m :
    With(ResolveGender(m.query, s.detected_gender, s.gender_source),
         LAMBDA res :
    With(GenderStep(m.state, m.query, res), LAMBDA s2 :
    With(ScenarioStep(s2, SearchMode(HasImage(s), m.query)), LAMBDA s3 :
    With(GeneratorStep(s3, m.query, res.gender, reply), LAMBDA s4 :
      [ state |-> [s4 EXCEPT !.next_agent = "search_executor"],
        map   |-> MemoryUpdate(context.map, s.session_id, context, m.query,
                               res.gender, t) ]))))))


(***************************************************************************)
(* utils/faiss_manager.py, as the retrieval stage uses it.  Similarity     *)
(* scores are in hundredths: 50 is 0.5.                                     *)
(***************************************************************************)
\* the catalogue rows of a built index: row i of the index is Catalog[i + 1]
Catalog ==
    << [id |-> 0, gender |-> "Men",    file_exists |-> TRUE],
       [id |-> 1, gender |-> "Women",  file_exists |-> TRUE],
       [id |-> 2, gender |-> "Boys",   file_exists |-> TRUE],
       [id |-> 3, gender |-> "Girls",  file_exists |-> FALSE],
       [id |-> 4, gender |-> "Unisex", file_exists |-> TRUE],
       [id |-> 5, gender |-> "Men",    file_exists |-> TRUE] >>

\* FAISSManager.__init__
\* has_index, has_metadata: the attribute is not None
\* index: the rows of self.index, each the embedding of the image of a
\* product, written as the product's id
UnbuiltStore ==
    [is_loaded |-> FALSE, has_index |-> FALSE, has_metadata |-> FALSE,
     index |-> <<>>, metadata |-> <<>>]

BuiltStore ==
    [is_loaded |-> TRUE, has_index |-> TRUE, has_metadata |-> TRUE,
     index |-> [i \in 1..Len(Catalog) |-> Catalog[i].id],
     metadata |-> Catalog]

\* FAISSManager.is_loaded
is_loaded(st) == st.is_loaded /\ st.has_index /\ st.has_metadata

\* what the index answers for a query vector: the rows by descending score
Rankings ==
    { << [idx |-> 0, score |-> 95], [idx |-> 1, score |-> 90],
         [idx |-> 3, score |-> 80], [idx |-> 2, score |-> 70],
         [idx |-> 5, score |-> 50], [idx |-> 4, score |-> 45] >>,
      << [idx |-> 4, score |-> 60], [idx |-> 1, score |-> 49],
         [idx |-> 0, score |-> 40], [idx |-> 5, score |-> 30],
         [idx |-> 2, score |-> 20], [idx |-> 3, score |-> 10] >> }

\* the outcomes of the embedding and index calls of one retrieval run:
\* the ranking the index answers, and the 1-based position of the sub-query
\* whose text embedding raises (0: none raises)
SearchOutcomes ==
    { [ranking |-> r, failing |-> 0] : r \in Rankings } \cup
    { [ranking |-> r, failing |-> 1] :
        r \in { x \in Rankings : x[1].idx = 0 } }

\* the entry the index returns past its last row
PadEntry == [idx |-> -1, score |-> -1000]

\* a search that goes to the index without asking whether it is loaded
searchUnchecked(st, ranking, k) ==
    [raised |-> FALSE,
     results |-> [i \in 1..k |-> IF i <= Len(ranking) THEN ranking[i]
                                 ELSE PadEntry]]

\* FAISSManager.search: raises when not loaded, else k entries
search(st, ranking, k) ==
    IF ~is_loaded(st) THEN [raised |-> TRUE, results |-> <<>>]
    ELSE [raised  |-> FALSE,
          results |-> [i \in 1..k |-> IF i <= Len(ranking) THEN ranking[i]
                                      ELSE PadEntry]]

\* FAISSManager.size: the number of vectors in the index, 0 without one
size(st) == IF st.has_index THEN Len(st.index) ELSE 0

\* FAISSManager.get_metadata: raises when not loaded or out of range
get_metadata(st, idx) ==
    IF ~is_loaded(st) \/ ~st.has_metadata
    THEN [raised |-> TRUE, row |-> Catalog[1]]
    ELSE IF idx < 0 \/ idx >= Len(st.metadata)
    THEN [raised |-> TRUE, row |-> Catalog[1]]
    ELSE [raised |-> FALSE, row |-> st.metadata[idx + 1]]

\* a file written completely with the rows given
File(rows) == [exists |-> TRUE, readable |-> TRUE, rows |-> rows]

\* a file that exists and cannot be read back
TornFile == [exists |-> TRUE, readable |-> FALSE, rows |-> <<>>]

\* FAISSManager.load_from_disk: what it returns and the store it leaves
load_from_disk(st, d) ==
    IF ~d.index.exists \/ ~d.metadata.exists
    THEN [ok |-> FALSE, store |-> st]
    ELSE IF ~d.index.readable \/ ~d.metadata.readable
    THEN [ok |-> FALSE, store |-> UnbuiltStore]
    ELSE [ok |-> TRUE,
          store |-> [is_loaded |-> TRUE, has_index |-> TRUE,
                     has_metadata |-> TRUE, index |-> d.index.rows,
                     metadata |-> d.metadata.rows]]

\* what can happen to the writes of save_to_disk
SaveOutcomes ==
    { "saved", "makedirs_raises", "write_index_raises", "write_index_torn",
      "open_metadata_raises", "dump_metadata_raises" }

\* a save_to_disk that writes whatever the store holds
save_to_diskUnchecked(st, d, outcome) ==
    IF outcome = "saved"
    THEN [ok |-> TRUE,
          disk |-> [index |-> File(st.index), metadata |-> File(st.metadata)]]
    ELSE [ok |-> FALSE, disk |-> d]

\* FAISSManager.save_to_disk: what it returns and the files it leaves
save_to_disk(st, d, outcome) ==
    IF ~is_loaded(st) THEN [ok |-> FALSE, disk |-> d]
    ELSE CASE outcome = "saved" ->
                [ok |-> TRUE,
                 disk |-> [index |-> File(st.index),
                           metadata |-> File(st.metadata)]]
           [] outcome = "write_index_torn" ->
                [ok |-> FALSE, disk |-> [d EXCEPT !.index = TornFile]]
           [] outcome = "open_metadata_raises" ->
                [ok |-> FALSE, disk |-> [d EXCEPT !.index = File(st.index)]]
           [] outcome = "dump_metadata_raises" ->
                [ok |-> FALSE,
                 disk |-> [index |-> File(st.index), metadata |-> TornFile]]
           [] OTHER -> [ok |-> FALSE, disk |-> d]

FAISS_MAX_ITEMS == 44419

\* df.head(n)
head(df, n) == SubSeq(df, 1, IF n < Len(df) THEN n ELSE Len(df))

\* a metadata row numbered by the position of the row in the dataset
MetadataRowByPosition(row, metadata) ==
    [id |-> row.position, image_id |-> row.id, gender |-> row.gender,
     file_exists |-> TRUE]

\* the metadata row of build_index for a row of the dataset
MetadataRow(row, metadata) ==
    [id |-> Len(metadata), image_id |-> row.id, gender |-> row.gender,
     file_exists |-> TRUE]

\* the loop of build_index from row i on: the embeddings and the metadata
RECURSIVE BuildLoop(_, _, _, _)
BuildLoop(df, i, embeddings, metadata) ==
    IF i > Len(df) THEN [embeddings |-> embeddings, metadata |-> metadata]
    ELSE IF df[i].image = "ok"
    THEN BuildLoop(df, i + 1, Append(embeddings, df[i].id),
                   Append(metadata, MetadataRow(df[i], metadata)))
    ELSE BuildLoop(df, i + 1, embeddings, metadata)

\* a build_index that empties the store when no vector was produced
build_indexResets(st, df) ==
    LET built == BuildLoop(df, 1, <<>>, <<>>)
    IN  IF built.embeddings = <<>> THEN [ok |-> FALSE, store |-> UnbuiltStore]
        ELSE [ok |-> TRUE,
              store |-> [is_loaded |-> TRUE, has_index |-> TRUE,
                         has_metadata |-> TRUE, index |-> built.embeddings,
                         metadata |-> built.metadata]]

\* FAISSManager.build_index: what it returns and the store it leaves
build_index(st, df) ==
    LET max_items == IF Len(df) < FAISS_MAX_ITEMS THEN Len(df)
                     ELSE FAISS_MAX_ITEMS
        built == BuildLoop(head(df, max_items), 1, <<>>, <<>>)
    IN  IF built.embeddings = <<>> THEN [ok |-> FALSE, store |-> st]
        ELSE [ok |-> TRUE,
              store |-> [is_loaded |-> TRUE, has_index |-> TRUE,
                         has_metadata |-> TRUE, index |-> built.embeddings,
                         metadata |-> built.metadata]]

(***************************************************************************)
(* services/agents/search_executor.py                                      *)
(***************************************************************************)
IMAGE_TOP_K == 15
TEXT_TOP_K == 20
MIN_SIMILARITY == 50
MAX_ITEMS == 5

TEXT_WEIGHT == 60
IMAGE_WEIGHT == 40

\* an embedding as a weighted sum of the vector of a text and the vector of
\* the uploaded image (weights are whole numbers)
Vector(text, text_weight, image, image_weight) ==
    [text |-> text, text_weight |-> text_weight,
     image |-> image, image_weight |-> image_weight]

RECURSIVE Gcd(_, _)
Gcd(a, b) == IF b = 0 THEN a ELSE Gcd(b, a % b)

\* v / np.linalg.norm(v): the direction of v, the common factor of the
\* weights taken out
normalize(v) ==
    With(Gcd(v.text_weight, v.image_weight), LAMBDA g :
        IF g = 0 THEN v
        ELSE [v EXCEPT !.text_weight = @ \div g, !.image_weight = @ \div g])

\* clip_service.get_text_embedding: the unit vector of the text
get_text_embedding(query) == Vector(query, 1, None, 0)

\* a fusion that gives the image the weight of the text and the text the
\* weight of the image
SearchEmbeddingImageFirst(s, search_mode, query) ==
    IF search_mode = "hybrid" /\ s.image_embedding # None
    THEN normalize(Vector(query, IMAGE_WEIGHT, s.image_embedding, TEXT_WEIGHT))
    ELSE get_text_embedding(query)

\* the vector sub-query query is searched with in the text and hybrid paths
SearchEmbedding(s, search_mode, query) ==
    With(get_text_embedding(query), LAMBDA text_emb :
        IF search_mode = "hybrid" /\ s.image_embedding # None
        THEN normalize(Vector(text_emb.text, TEXT_WEIGHT * text_emb.text_weight,
                              s.image_embedding, IMAGE_WEIGHT))
        ELSE text_emb)

men_facets == <<"men", "male", "boys">>
women_facets == <<"women", "female", "girls">>

\* the gender filter of the text and hybrid paths: TRUE when the item is kept
PassesGender(detected_gender, item_gender) ==
    CASE detected_gender = "men"   -> InList(item_gender, men_facets)
      [] detected_gender = "women" -> InList(item_gender, women_facets)
      [] OTHER                     -> TRUE

RECURSIVE CollectImage(_, _, _, _)
\* the loop of the image-only path over the search results, from entry i
CollectImage(st, results, i, acc) ==
    IF i > Len(results) \/ Len(acc) >= MAX_ITEMS
    THEN [raised |-> FALSE, items |-> acc]
    ELSE IF results[i].score < MIN_SIMILARITY
    THEN CollectImage(st, results, i + 1, acc)
    ELSE With(get_metadata(st, results[i].idx), LAMBDA got :
           IF got.raised THEN [raised |-> TRUE, items |-> <<>>]
           ELSE IF got.row.file_exists
           THEN CollectImage(st, results, i + 1,
                  Append(acc, [id |-> got.row.id, score |-> results[i].score,
                               gender |-> got.row.gender]))
           ELSE CollectImage(st, results, i + 1, acc))

RECURSIVE CollectText(_, _, _, _, _)
\* the loop of the text and hybrid paths over the search results, from entry i
CollectText(st, results, i, acc, detected_gender) ==
    IF i > Len(results) \/ Len(acc) >= MAX_ITEMS
    THEN [raised |-> FALSE, items |-> acc]
    ELSE With(get_metadata(st, results[i].idx), LAMBDA got :
         With(lower(got.row.gender), LAMBDA item_gender :
           IF got.raised THEN [raised |-> TRUE, items |-> <<>>]
           ELSE IF ~PassesGender(detected_gender, item_gender)
           THEN CollectText(st, results, i + 1, acc, detected_gender)
           ELSE IF got.row.file_exists
           THEN CollectText(st, results, i + 1,
                  Append(acc, [id |-> got.row.id, score |-> results[i].score,
                               gender |-> item_gender]),
                  detected_gender)
           ELSE CollectText(st, results, i + 1, acc, detected_gender)))

\* the result group of the image-only path; failed: the try block raised
ImageGroup(st, s, ranking) ==
    With(search(st, ranking, IMAGE_TOP_K), LAMBDA found :
    With(IF found.raised THEN [raised |-> TRUE, items |-> <<>>]
         ELSE CollectImage(st, found.results, 1, <<>>), LAMBDA got :
        [ query_number  |-> 1,
          query_text    |-> "Similar items (visual search)",
          category      |-> "similar",
          items         |-> got.items,
          item_count    |-> Len(got.items),
          gender_filter |-> None,
          failed        |-> got.raised,
          searches      |-> << [embedding |->
                                  normalize(Vector(None, 0, s.image_embedding, 1)),
                                k |-> IMAGE_TOP_K] >> ]))

\* a text group numbered by the 0-based position of its sub-query
TextGroupZeroBased(st, s, idx, ranking, embedding_fails) ==
    With(IF embedding_fails THEN [raised |-> TRUE, results |-> <<>>]
         ELSE search(st, ranking, TEXT_TOP_K), LAMBDA found :
    With(IF found.raised THEN [raised |-> TRUE, items |-> <<>>]
         ELSE CollectText(st, found.results, 1, <<>>, s.detected_gender),
         LAMBDA got :
        [ query_number  |-> idx,
          query_text    |-> s.search_queries[idx + 1],
          category      |-> IF idx < Len(s.query_categories)
                            THEN s.query_categories[idx + 1] ELSE "general",
          items         |-> IF got.raised THEN <<>> ELSE got.items,
          item_count    |-> IF got.raised THEN 0 ELSE Len(got.items),
          gender_filter |-> s.detected_gender,
          failed        |-> got.raised,
          searches      |-> <<>> ]))

\* the result group of sub-query idx (0-based) of the text and hybrid paths;
\* embedding_fails: get_text_embedding raises for this sub-query
TextGroup(st, s, idx, ranking, embedding_fails) ==
    With(IF embedding_fails THEN [raised |-> TRUE, results |-> <<>>]
         ELSE search(st, ranking, TEXT_TOP_K), LAMBDA found :
    With(IF found.raised THEN [raised |-> TRUE, items |-> <<>>]
         ELSE CollectText(st, found.results, 1, <<>>, s.detected_gender),
         LAMBDA got :
        [ query_number  |-> idx + 1,
          query_text    |-> s.search_queries[idx + 1],
          category      |-> IF idx < Len(s.query_categories)
                            THEN s.query_categories[idx + 1] ELSE "general",
          items         |-> IF got.raised THEN <<>> ELSE got.items,
          item_count    |-> IF got.raised THEN 0 ELSE Len(got.items),
          gender_filter |-> s.detected_gender,
          failed        |-> got.raised,
          searches      |-> IF embedding_fails THEN <<>>
                            ELSE << [embedding |->
                                       SearchEmbedding(s,
                                         IF s.search_mode = None
                                         THEN "text_only" ELSE s.search_mode,
                                         s.search_queries[idx + 1]),
                                     k |-> TEXT_TOP_K] >> ]))

\* a group as the stage stores it
Stored(g) ==
    [ query_number  |-> g.query_number,
      query_text    |-> g.query_text,
      category      |-> g.category,
      items         |-> g.items,
      item_count    |-> g.item_count,
      gender_filter |-> g.gender_filter ]

\* the response template the stage picks
FinalResponse(search_mode, intent_type) ==
    CASE search_mode = "image_only"     -> "Similar Fashion Items"
      [] intent_type = "recommendation" -> "Complete Outfit Recommendation"
      [] search_mode = "hybrid"         -> "Smart Matching Results"
      [] OTHER                          -> "Search Results"

\* failing: the 1-based position of the sub-query whose text embedding
\* raises, 0 when none does
search_executor_agent(s, st, ranking, failing) ==
    LET search_mode == IF s.search_mode = None THEN "text_only" ELSE s.search_mode
        queries     == s.search_queries
    IN  IF queries = <<>> /\ s.image_embedding = None
        THEN [s EXCEPT !.final_response = "No search criteria available",
                       !.search_results_data = <<>>,
                       !.next_agent = "end"]
        ELSE
        With(IF search_mode = "image_only" /\ s.image_embedding # None
             THEN ImageGroup(st, s, ranking) ELSE <<>>, LAMBDA group :
        With(IF search_mode = "image_only" /\ s.image_embedding # None
             THEN <<>>
             ELSE [i \in 1..Len(queries) |->
                     TextGroup(st, s, i - 1, ranking, failing = i)],
             LAMBDA groups :
        LET s1 == Append_message(s, "Search mode: " \o search_mode)
            image_path == search_mode = "image_only" /\ s.image_embedding # None
            all_grouped_results ==
                IF image_path
                THEN (IF group.failed THEN <<>> ELSE <<Stored(group)>>)
                ELSE [i \in 1..Len(queries) |-> Stored(groups[i])]
            s2 == IF image_path
                  THEN Append_message(s1,
                         IF group.failed THEN "Image search failed"
                         ELSE "Visual search")
                  ELSE [s1 EXCEPT !.messages = @ \o
                         [i \in 1..Len(queries) |->
                            IF groups[i].failed THEN "Query failed"
                            ELSE "Q: " \o groups[i].query_text]]
        IN  Append_message(
              [s2 EXCEPT !.search_results_data = all_grouped_results,
                         !.final_response =
                             FinalResponse(search_mode, s.intent_type),
                         !.next_agent = "end"],
              "Complete")))

\* the calls of faiss_manager.search the stage makes: one entry per group
\* it works on, holding the call made for it (none when the text embedding
\* raised before the search)
search_calls(s, st, ranking, failing) ==
    LET search_mode == IF s.search_mode = None THEN "text_only" ELSE s.search_mode
    IN  IF s.search_queries = <<>> /\ s.image_embedding = None THEN <<>>
        ELSE IF search_mode = "image_only" /\ s.image_embedding # None
        THEN << ImageGroup(st, s, ranking).searches >>
        ELSE [i \in 1..Len(s.search_queries) |->
                TextGroup(st, s, i - 1, ranking, failing = i).searches]

(***************************************************************************)
(* The replies of the query generator (Gemini), after json.loads.          *)
(* raises: the call or the parsing raised.                                 *)
(***************************************************************************)
Reply(intent, queries, categories) ==
    [raises |-> FALSE, intent |-> intent, queries |-> queries,
     categories |-> categories]

Raises == [raises |-> TRUE, intent |-> "", queries |-> <<>>, categories |-> <<>>]

\* the replies of the workflow specification
WorkflowReplies ==
    { Raises,
      Reply("direct_search", <<"men blue shirt", "women blue shirt">>, <<>>) }

\* the replies the planner specification explores
GeneratorReplies ==
    WorkflowReplies \cup
    { Reply("direct_search", <<>>, <<>>),
      Reply("direct_search", [i \in 1..LongReply |-> "men shirt"], <<>>),
      Reply("outfit_recommendation", <<>>,
            << [category |-> "top",      queries |-> <<"men formal shirt">>],
               [category |-> "watches",  queries |-> <<"men formal watch">>] >>),
      Reply("outfit_recommendation", <<>>, <<>>),
      Reply("outfit_recommendation", <<>>,
            << [category |-> "top",
                queries  |-> [i \in 1..LongReply |-> "men formal shirt"]] >>) }

(***************************************************************************)
(* The workflow: requests run through the graph one after the other.       *)
(***************************************************************************)
vars == <<state, node, trail, sessions, now, requests, ticks, store, call, disk, threads, lock>>

Idle == "idle"

\* the application after lifespan startup, no request served yet
Init ==
    /\ state = create_initial_state("", None, "both")
    /\ node = Idle
    /\ trail = <<>>
    /\ sessions = <<>>
    /\ now = 0
    /\ requests = 0
    /\ ticks = 0
    /\ store \in {BuiltStore, UnbuiltStore}
    /\ call = NoCall
    /\ disk = NoDisk
    /\ threads = NoThreads
    /\ lock = None

\* run_query up to app.invoke: the initial state enters the graph
RunQuery ==
    /\ node \in {Idle, END}
    /\ requests < MaxRequests
    /\ \E user_text \in UserTexts, image_path \in ImageInputs,
          user_gender \in UserGenders, session_id \in SessionIds :
         state' = [create_initial_state(user_text, image_path, user_gender)
                   EXCEPT !.session_id = session_id]
    /\ node' = EntryPoint
    /\ trail' = <<>>
    /\ requests' = requests + 1
    /\ UNCHANGED <<sessions, now, ticks, store, call, disk, threads, lock>>

\* the driver has run node n, whose handler left the state s
Advance(n, s) ==
    /\ state' = s
    /\ node' = NextNode(n, s)
    /\ trail' = Append(trail, n)

ImageFashionValidator ==
    /\ node = "image_fashion_validator"
    /\ \E outcome \in ValidatorOutcomes :
         Advance(node, image_fashion_validator_agent(state, outcome))
    /\ UNCHANGED <<sessions, now, requests, ticks, store, call, disk, threads, lock>>

ImageToDescription ==
    /\ node = "image_to_description"
    /\ \E outcome \in DescriptionOutcomes :
         Advance(node, image_to_description_agent(state, outcome))
    /\ UNCHANGED <<sessions, now, requests, ticks, store, call, disk, threads, lock>>

NonRelevantImage ==
    /\ node = "non_relevant_image_agent"
    /\ Advance(node, non_relevant_image_agent(state))
    /\ UNCHANGED <<sessions, now, requests, ticks, store, call, disk, threads, lock>>

IntentClassifier ==
    /\ node = "intent_classifier"
    /\ \E label \in BertLabels :
         Advance(node, intent_classifier_agent(state, label))
    /\ UNCHANGED <<sessions, now, requests, ticks, store, call, disk, threads, lock>>

Welcome ==
    /\ node = "welcome_agent"
    /\ Advance(node, welcome_agent(state))
    /\ UNCHANGED <<sessions, now, requests, ticks, store, call, disk, threads, lock>>

NonRelevant ==
    /\ node = "non_relevant_agent"
    /\ Advance(node, non_relevant_agent(state))
    /\ UNCHANGED <<sessions, now, requests, ticks, store, call, disk, threads, lock>>

\* the planner stage with a reply of the set replies
Plan(replies) ==
    /\ node = "smart_query_understanding"
    /\ \E reply \in replies :
         \E out \in {smart_query_understanding_agent(state, sessions, now,
                                                      reply)} :
            /\ Advance(node, out.state)
            /\ sessions' = out.map
    /\ UNCHANGED <<now, requests, ticks, store, call, disk, threads, lock>>

SmartQueryUnderstanding == Plan(WorkflowReplies)

SearchExecutor ==
    /\ node = "search_executor"
    /\ \E o \in SearchOutcomes :
         Advance(node, search_executor_agent(state, store, o.ranking, o.failing))
    /\ UNCHANGED <<sessions, now, requests, ticks, store, call, disk, threads, lock>>

\* time passes after a request, by one second more than the TTL
Tick ==
    /\ node = END
    /\ ticks < MaxTicks
    /\ now' = now + SESSION_TTL + 1
    /\ ticks' = ticks + 1
    /\ UNCHANGED <<state, node, trail, sessions, requests, store, call, disk, threads, lock>>

Next ==
    \/ RunQuery
    \/ ImageFashionValidator
    \/ ImageToDescription
    \/ NonRelevantImage
    \/ IntentClassifier
    \/ Welcome
    \/ NonRelevant
    \/ SmartQueryUnderstanding
    \/ SearchExecutor
    \/ Tick

Spec == Init /\ [][Next]_vars


\* the node actions are taken as long as a request is in flight: app.invoke
\* runs the graph to its end
Step ==
    \/ ImageFashionValidator
    \/ ImageToDescription
    \/ NonRelevantImage
    \/ IntentClassifier
    \/ Welcome
    \/ NonRelevant
    \/ SmartQueryUnderstanding
    \/ SearchExecutor

\* run_query, for at most LiveRequests requests
LiveRunQuery == requests < LiveRequests /\ RunQuery

LiveNext == LiveRunQuery \/ Step \/ Tick

LiveSpec == Init /\ [][LiveNext]_vars /\ WF_vars(Step)

(***************************************************************************)
(* The planner on its own: a request that has reached the planner stage,   *)
(* in a session that a previous turn may have written.                     *)
(***************************************************************************)
RECURSIVE RunUntil(_, _, _, _, _, _)
\* the driver from node n and state s up to the node stop (or END), with
\* the collaborator outcomes v, d and label; trail t
RunUntil(stop, n, s, t, outcomes, fuel) ==
    IF n = stop \/ n = END \/ n = KeyError \/ fuel = 0
    THEN [state |-> s, node |-> n, trail |-> t]
    ELSE LET s1 == CASE n = "image_fashion_validator" ->
                         image_fashion_validator_agent(s, outcomes.validator)
                      [] n = "image_to_description" ->
                         image_to_description_agent(s, outcomes.description)
                      [] n = "non_relevant_image_agent" ->
                         non_relevant_image_agent(s)
                      [] n = "intent_classifier" ->
                         intent_classifier_agent(s, outcomes.label)
                      [] n = "welcome_agent" -> welcome_agent(s)
                      [] n = "non_relevant_agent" -> non_relevant_agent(s)
                      [] OTHER -> s
         IN  RunUntil(stop, NextNode(n, s1), s1, Append(t, n), outcomes,
                      fuel - 1)

\* a request as it reaches the planner, if it does
AtPlanner(user_text, image_path, user_gender, session_id, outcomes) ==
    RunUntil("smart_query_understanding", EntryPoint,
             [create_initial_state(user_text, image_path, user_gender)
              EXCEPT !.session_id = session_id],
             <<>>, outcomes, Cardinality(Nodes))

CollaboratorOutcomes ==
    [validator : ValidatorOutcomes, description : DescriptionOutcomes,
     label : BertLabels]

PlannerEntries ==
    { e \in { AtPlanner(ut, ip, ug, sid, o) :
                ut \in PlannerTexts, ip \in ImageInputs, ug \in PlannerGenders,
                sid \in SessionIds, o \in CollaboratorOutcomes } :
        e.node = "smart_query_understanding" }

\* the texts of the previous turn of the session
PriorTexts == { "tshirt" }

\* the session map a previous turn at time 0 has left, or the empty map
PriorSessions ==
    { <<>> } \cup
    { smart_query_understanding_agent(e.state, <<>>, 0, Raises).map :
        e \in { x \in PlannerEntries :
                  /\ x.state.user_input \in PriorTexts
                  /\ x.state.session_id # ""
                  /\ x.state.image_input = None
                  /\ x.state.detected_gender = "both" } }

\* the time of the turn: the previous one was at 0
TurnTimes == { 0, SESSION_TTL, SESSION_TTL + 1 }

InitPlanner ==
    /\ \E e \in PlannerEntries :
         /\ state = e.state
         /\ node = e.node
         /\ trail = e.trail
    /\ sessions \in PriorSessions
    /\ now \in TurnTimes
    /\ requests = 1
    /\ ticks = 0
    /\ store = BuiltStore
    /\ call = NoCall
    /\ disk = NoDisk
    /\ threads = NoThreads
    /\ lock = None

PlanAny == Plan(GeneratorReplies)

NextPlanner == PlanAny

SpecPlanner == InitPlanner /\ [][NextPlanner]_vars

(***************************************************************************)
(* Properties of the workflow graph.                                       *)
(***************************************************************************)
\* the stage-to-stage steps of the conversation state machine
AllowedSteps ==
    { <<"image_fashion_validator", "image_to_description">>,
      <<"image_fashion_validator", "non_relevant_image_agent">>,
      <<"image_fashion_validator", "intent_classifier">>,
      <<"image_to_description", "intent_classifier">>,
      <<"intent_classifier", "welcome_agent">>,
      <<"intent_classifier", "non_relevant_agent">>,
      <<"intent_classifier", "smart_query_understanding">>,
      <<"welcome_agent", END>>,
      <<"non_relevant_agent", END>>,
      <<"non_relevant_image_agent", END>>,
      <<"smart_query_understanding", "search_executor">>,
      <<"search_executor", END>> }

\* C1: every request starts at image_fashion_validator, and every step from
\* one stage to the next is one of: validator -> describe | reject image |
\* classify; describe -> classify; classify -> welcome | reject text | plan;
\* welcome, reject text, reject image -> end; plan -> retrieve -> end.
C1_OnlyGraphTransitions ==
    [][ (node' # node \/ trail' # trail) =>
          IF node \in {Idle, END}
          THEN node' = "image_fashion_validator" /\ trail' = <<>>
          ELSE <<node, node'>> \in AllowedSteps /\ trail' = Append(trail, node)
      ]_vars

\* a request with a fashion image that went through all five stages of the
\* longest path
C1_Witness ==
    /\ node = END
    /\ trail = << "image_fashion_validator", "image_to_description",
                  "intent_classifier", "smart_query_understanding",
                  "search_executor" >>

\* C2: every request in flight eventually reaches end, and no stage runs
\* twice within one request: the stages run so far are pairwise distinct and
\* the stage about to run is none of them.
C2_TerminatesWithoutRevisit ==
    /\ [](/\ \A i, j \in 1..Len(trail) : i # j => trail[i] # trail[j]
          /\ node \in Nodes => ~InList(node, trail))
    /\ ((node \in Nodes) ~> (node = END))

\* a request whose image validation raised and that ended at the reject stage
C2_Witness ==
    /\ node = END
    /\ state.image_validation_reason = "Error"
    /\ trail = << "image_fashion_validator", "non_relevant_image_agent" >>

\* C3 as stated: a request with an image that validates as fashion and with
\* empty user text ends with search_mode = image_only.
C3_ImageOnlyForEmptyText ==
    (/\ node = END
     /\ state.image_input # None
     /\ state.is_fashion_image = "True"
     /\ state.user_input = "")
    => state.search_mode = "image_only"

(***************************************************************************)
(* Properties of the planner.                                              *)
(***************************************************************************)
\* the planner runs in this step
PlannerRuns == node = "smart_query_understanding"

\* the query as the planner reads it from a state: trimmed, lower-cased
QueryOf(s) == lower(strip(s.text_query))

\* the words of a list
Words(list) == { list[i] : i \in 1..Len(list) }

\* the item type the session of the request remembers, None when the request
\* has no session, the session is unknown or it has expired
RememberedItem ==
    IF /\ state.session_id # ""
       /\ state.session_id \in DOMAIN sessions
       /\ now - sessions[state.session_id].last_updated <= SESSION_TTL
    THEN sessions[state.session_id].last_item_type
    ELSE None

\* the mode the scenario rules give for an image flag and a query text
ExpectedMode(image_present, text) ==
    IF image_present /\ (\/ text = ""
                         \/ text \in {"similar", "like this", "same"}
                         \/ Len(split(text)) <= 2)
    THEN "image_only"
    ELSE IF image_present /\ Len(split(text)) > 2
    THEN "hybrid"
    ELSE "text_only"

\* C4: the mode the planner sets is a function of (image present, query
\* text): image_only with an image and a text that is empty, a similar /
\* like-this phrase or of at most 2 tokens; hybrid with an image and more
\* than 2 tokens; text_only otherwise.
C4_ModeIsFunctionOfImageAndText ==
    [][ PlannerRuns =>
          /\ state'.search_mode =
                 ExpectedMode(state.image_input # None, QueryOf(state))
          /\ state'.search_mode \in {"image_only", "hybrid", "text_only"}
      ]_vars

\* a planner run with an image and a text of more than two tokens
C4_Witness ==
    /\ node = "search_executor"
    /\ state.image_input # None
    /\ state.user_input = "white leather jacket"
    /\ state.search_mode = "hybrid"

\* the trace entry of a merge of the query raw with the item type item
MergeEntry(raw, item) ==
    "Memory: Merged '" \o raw \o "' + '" \o item \o "' -> '"
        \o raw \o " " \o item \o "'"

\* C5: the follow-up merge happens exactly when the query has at most 2
\* tokens, contains an attribute keyword, no image is present and the
\* session remembers an item type; the query then becomes
\* "{raw} {remembered item type}" and the trace gets the merge entry;
\* otherwise the query text is unchanged and the trace gets no such entry.
C5_FollowUpMerge ==
    [][ PlannerRuns =>
          LET raw  == QueryOf(state)
              item == RememberedItem
              cond == /\ Len(split(raw)) <= 2
                      /\ \E kw \in Words(attribute_keywords) : Contains(raw, kw)
                      /\ state.image_input = None
                      /\ item # None
          IN  IF cond
              THEN /\ state'.text_query = raw \o " " \o item
                   /\ state'.messages[Len(state.messages) + 1]
                        = MergeEntry(raw, item)
              ELSE /\ state'.text_query = state.text_query
                   /\ \A i \in 1..Len(state'.messages) :
                        ~startswith(state'.messages[i], "Memory: Merged")
      ]_vars

\* the one-word follow-up "white" merged with the remembered item type
C5_Witness ==
    /\ node = "search_executor"
    /\ state.user_input = "white"
    /\ state.text_query = "white shirt"
    /\ InList(MergeEntry("white", "shirt"), state.messages)

\* C6: gender tokens of the (possibly rewritten) query decide first: male
\* only -> men, female only -> women, both -> both, source query_text;
\* otherwise a caller selection other than "both" is used, source
\* user_selection; otherwise "both", source default_both.
C6_GenderPriority ==
    [][ PlannerRuns =>
          LET words  == Words(split(QueryOf(state')))
              male   == words \cap {"men", "man", "male", "guy", "boy",
                                    "gentleman", "his", "he", "him"} # {}
              female == words \cap {"women", "woman", "female", "girl",
                                    "lady", "her", "she"} # {}
              selection == state.detected_gender
              expected ==
                  CASE male /\ ~female -> <<"men", "query_text">>
                    [] female /\ ~male -> <<"women", "query_text">>
                    [] male /\ female  -> <<"both", "query_text">>
                    [] ~male /\ ~female /\ selection # "both" ->
                         <<selection, "user_selection">>
                    [] OTHER -> <<"both", "default_both">>
          IN  <<state'.detected_gender, state'.gender_source>> = expected
      ]_vars

\* a query that names a female gender, asked with a caller selection: the
\* text decides
C6_Witness ==
    /\ node = "search_executor"
    /\ state.user_input = "women shirt"
    /\ state.detected_gender = "women"
    /\ state.gender_source = "query_text"

\* the planner took the rule-based fallback
FellBack(s) == InList("Gemini failed -> Rule-based fallback", s.messages)

\* the query contains an outfit or occasion keyword
HasOutfitWord(q) ==
    \E kw \in {"wedding", "party", "office", "recommend", "outfit"} :
        Contains(q, kw)

\* the general rule of the non-outfit fallback, for the state s after the
\* planner: one "{gender} {query}" per prefix, each of category general
DirectFallbackRule(s) ==
    LET q == QueryOf(s)
        g == s.detected_gender
    IN  /\ g = "both"  => s.search_queries = << "men " \o q, "women " \o q >>
        /\ g = "men"   => s.search_queries = << "men " \o q >>
        /\ g = "women" => s.search_queries = << "women " \o q >>
        /\ Len(s.query_categories) = Len(s.search_queries)
        /\ \A i \in 1..Len(s.query_categories) :
             s.query_categories[i] = "general"

\* the example: text "blue shirt", caller gender both, no image
BlueShirtRequest ==
    /\ state.text_query = "blue shirt"
    /\ state.detected_gender = "both"
    /\ state.image_input = None

BlueShirtResult(s) ==
    /\ s.search_queries = << "men blue shirt", "women blue shirt" >>
    /\ s.search_mode = "text_only"

\* C7 as stated: on a failed generator call and a query with no outfit
\* keyword the planner emits one "{gender} {query}" per gender prefix with
\* category general; for text "blue shirt", gender both, no image the
\* result is exactly ["men blue shirt", "women blue shirt"], text_only.
C7_AsStated ==
    [][ (PlannerRuns /\ FellBack(state') /\ ~HasOutfitWord(QueryOf(state'))) =>
          /\ DirectFallbackRule(state')
          /\ BlueShirtRequest => BlueShirtResult(state')
      ]_vars

\* C7, amended: the same, the example holding for a request whose session
\* remembers no item type (no follow-up merge rewrites the query).
C7_FallbackDirect ==
    [][ (PlannerRuns /\ FellBack(state') /\ ~HasOutfitWord(QueryOf(state'))) =>
          /\ DirectFallbackRule(state')
          /\ (BlueShirtRequest /\ RememberedItem = None)
               => BlueShirtResult(state')
      ]_vars

\* the fallback for "blue shirt", both genders, with its exact result
C7_Witness ==
    /\ node = "search_executor"
    /\ FellBack(state)
    /\ state.user_input = "blue shirt"
    /\ state.search_queries = << "men blue shirt", "women blue shirt" >>
    /\ state.query_categories = << "general", "general" >>
    /\ state.search_mode = "text_only"

\* the sub-queries i..j of a state all start with the prefix
AllStartWith(s, i, j, prefix) ==
    \A k \in i..j : startswith(s.search_queries[k], prefix)

\* C8: on a failed generator call and a query with an outfit keyword the
\* planner emits 5 sub-queries per applicable gender, of categories top,
\* bottom, footwear, accessories, watches in that order (5 for men or
\* women, 10 for both: men first), and the intent is recommendation.
C8_FallbackOutfit ==
    [][ (PlannerRuns /\ FellBack(state') /\ HasOutfitWord(QueryOf(state'))) =>
          LET s    == state'
              g    == s.detected_gender
              five == << "top", "bottom", "footwear", "accessories",
                         "watches" >>
          IN  /\ s.intent_type = "recommendation"
              /\ g \in {"men", "women"} =>
                   /\ Len(s.search_queries) = 5
                   /\ s.query_categories = five
                   /\ AllStartWith(s, 1, 5, g \o " ")
              /\ g = "both" =>
                   /\ Len(s.search_queries) = 10
                   /\ s.query_categories = five \o five
                   /\ AllStartWith(s, 1, 5, "men ")
                   /\ AllStartWith(s, 6, 10, "women ")
      ]_vars

\* the outfit fallback for the query "wedding outfit for men"
C8_Witness ==
    /\ node = "search_executor"
    /\ FellBack(state)
    /\ state.user_input = "wedding outfit for men"
    /\ state.detected_gender = "men"
    /\ Len(state.search_queries) = 5
    /\ state.intent_type = "recommendation"

\* C9 as stated: the planner never hands the retrieval stage an empty list
\* of sub-queries, because an empty generator result takes the fallback.
C9_NeverEmptyQueries ==
    node = "search_executor" => state.search_queries # <<>>

\* C10 as stated: after every planner run the list of sub-queries has at
\* most 10 entries.
C10_AtMostTenQueries ==
    node = "search_executor" => Len(state.search_queries) <= 10

(***************************************************************************)
(* Properties of the memory write-back of the planner.                     *)
(***************************************************************************)
\* the item-type tokens a query names: its words that are item types
NamedItems(q) == Words(split(q)) \cap Words(item_types)

\* C11 as stated: after the planner handles, for a request with a session
\* id, a query whose only item word is the token t, the session remembers
\* t as its item type and the resolved gender as its gender.
C11_WriteBackStoresToken ==
    [][ PlannerRuns /\ state.session_id # "" =>
          \A t \in NamedItems(QueryOf(state')) :
              NamedItems(QueryOf(state')) = {t} =>
                  /\ state.session_id \in DOMAIN sessions'
                  /\ sessions'[state.session_id].last_item_type = t
                  /\ sessions'[state.session_id].last_gender =
                         state'.detected_gender
      ]_vars

\* C12 as stated: when the query names no item type while the session
\* remembers one, the remembered item type is the same after the run as
\* before it; and no run writes an empty or "none" item type.
C12_RememberedItemKept ==
    [][ PlannerRuns /\ state.session_id # "" =>
          /\ ( /\ Truthy(RememberedItem)
               /\ NamedItems(QueryOf(state)) = {}
               => /\ state.session_id \in DOMAIN sessions'
                  /\ sessions'[state.session_id].last_item_type =
                         RememberedItem )
          /\ ( state.session_id \in DOMAIN sessions' =>
                 sessions'[state.session_id].last_item_type
                     \notin {"", "none", None} )
      ]_vars

\* C13 as stated: after any query that carries a session id, the memory
\* holds a context for that id whose last_query is that query and whose
\* last_updated is the time of the query.
C13_ContextAfterEveryQuery ==
    [][ node # END /\ node' = END /\ state'.session_id # "" =>
          /\ state'.session_id \in DOMAIN sessions'
          /\ sessions'[state'.session_id].last_query
                 \in {state'.user_input, state'.text_query, QueryOf(state')}
          /\ sessions'[state'.session_id].last_updated = now'
      ]_vars

(***************************************************************************)
(* The session memory on its own: callers get, update, clear and sweep     *)
(* the sessions while time passes.                                          *)
(***************************************************************************)
\* the calls of update_context a run makes at most
MaxCalls == 6

\* the clock advances of a run of the memory
MemTicks == 2

MemSessionIds == { "s1", "s2" }

\* the query of the n-th call of update_context
QueryNo(n) == "q" \o ToString(n)

\* the item type, color and gender a call of update_context supplies
MemFields ==
    { [item_type |-> None,    color |-> "",     gender |-> None],
      [item_type |-> "shirt", color |-> "blue", gender |-> "men"],
      [item_type |-> "dress", color |-> None,   gender |-> "women"] }

\* the record of a call of a method of the memory
MemCall(op, session_id, query, fields, found, ctx) ==
    [ op |-> op, session_id |-> session_id, query |-> query,
      item_type |-> fields.item_type, color |-> fields.color,
      gender |-> fields.gender, found |-> found, ctx |-> ctx ]

NoFields == [item_type |-> None, color |-> None, gender |-> None]

InitMemory ==
    /\ state = create_initial_state("", None, "both")
    /\ node = Idle
    /\ trail = <<>>
    /\ sessions = <<>>
    /\ now = 0
    /\ requests = 0
    /\ ticks = 0
    /\ store = UnbuiltStore
    /\ call = NoCall
    /\ disk = NoDisk
    /\ threads = NoThreads
    /\ lock = None

\* a caller reads a session
MemGet ==
    /\ \E session_id \in MemSessionIds :
         \E r \in {get_context(sessions, session_id, now)} :
            /\ sessions' = r.map
            /\ call' = MemCall("get_context", session_id, None, NoFields,
                               r.found, r.ctx)
    /\ UNCHANGED <<state, node, trail, now, requests, ticks, store, disk,
                   threads, lock>>

\* a caller writes a session
MemUpdate ==
    /\ requests < MaxCalls
    /\ \E session_id \in MemSessionIds, f \in MemFields :
         /\ sessions' = update_context(sessions, session_id,
                                       QueryNo(requests + 1), f.item_type,
                                       f.color, f.gender, now)
         /\ call' = MemCall("update_context", session_id,
                            QueryNo(requests + 1), f, FALSE,
                            SessionContext(0))
    /\ requests' = requests + 1
    /\ UNCHANGED <<state, node, trail, now, ticks, store, disk, threads,
                   lock>>

\* a caller clears a session
MemClear ==
    /\ \E session_id \in MemSessionIds :
         /\ sessions' = clear_session(sessions, session_id)
         /\ call' = MemCall("clear_session", session_id, None, NoFields,
                            FALSE, SessionContext(0))
    /\ UNCHANGED <<state, node, trail, now, requests, ticks, store, disk,
                   threads, lock>>

\* a caller sweeps the expired sessions
MemCleanup ==
    /\ sessions' = cleanup_expired(sessions, now)
    /\ call' = MemCall("cleanup_expired", None, None, NoFields, FALSE,
                       SessionContext(0))
    /\ UNCHANGED <<state, node, trail, now, requests, ticks, store, disk,
                   threads, lock>>

\* time passes: first to the TTL of a session written at the start, then
\* second by second
MemTick ==
    /\ ticks < MemTicks
    /\ now' = now + (IF ticks = 0 THEN SESSION_TTL ELSE 1)
    /\ ticks' = ticks + 1
    /\ UNCHANGED <<state, node, trail, sessions, requests, store, call, disk,
                   threads, lock>>

NextMemory == MemGet \/ MemUpdate \/ MemClear \/ MemCleanup \/ MemTick

SpecMemory == InitMemory /\ [][NextMemory]_vars

(***************************************************************************)
(* Properties of the session memory.                                       *)
(***************************************************************************)
\* this step is a call of get_context
GetStep == call'.op = "get_context" /\ now' = now

\* this step is a call of update_context
UpdateStep == call'.op = "update_context" /\ requests' = requests + 1

\* the session is in the map and its age exceeds the TTL
Expired(session_id) ==
    /\ session_id \in DOMAIN sessions
    /\ now - sessions[session_id].last_updated > SESSION_TTL

\* C14: get_context returns absent for a session never created, and for one
\* whose age exceeds the TTL, which it also removes; for a session within
\* the TTL it returns the stored context and changes nothing, last_updated
\* included.
C14_GetContext ==
    [][ GetStep =>
          LET sid == call'.session_id
          IN  /\ sid \notin DOMAIN sessions =>
                    ~call'.found /\ sessions' = sessions
              /\ Expired(sid) =>
                    /\ ~call'.found
                    /\ sessions' = DictDel(sessions, sid)
              /\ sid \in DOMAIN sessions /\ ~Expired(sid) =>
                    /\ call'.found
                    /\ call'.ctx = sessions[sid]
                    /\ sessions' = sessions
                    /\ sessions'[sid].last_updated
                           = sessions[sid].last_updated
      ]_vars

\* a session written at time 0 is read when its age is exactly the TTL
C14_Witness ==
    /\ call.op = "get_context"
    /\ call.found
    /\ now = SESSION_TTL
    /\ call.ctx.last_updated = 0
    /\ call.session_id \in DOMAIN sessions

\* what a call leaves in a field when the context held nothing before
Supplied(v) == IF Truthy(v) THEN v ELSE None

\* C15 as stated: update_context on a session whose TTL has elapsed, with
\* or without a get_context in between, yields a context that carries no
\* item type, color, gender or history of the expired context: only what
\* this call supplies.
C15_UpdateAfterExpiry ==
    [][ UpdateStep /\ Expired(call'.session_id) =>
          LET after == sessions'[call'.session_id]
          IN  /\ after.last_item_type = Supplied(call'.item_type)
              /\ after.last_color = Supplied(call'.color)
              /\ after.last_gender = Supplied(call'.gender)
              /\ after.history = <<call'.query>>
      ]_vars

\* C16: update_context creates the context when the map has none for the
\* id; it overwrites item type, color and gender only with a non-empty
\* value; it always sets last_query and last_updated and appends the query
\* to the history, which keeps the 5 most recent queries in arrival order;
\* other sessions are left alone.
C16_UpdateContext ==
    [][ UpdateStep =>
          LET sid    == call'.session_id
              before == IF sid \in DOMAIN sessions THEN sessions[sid]
                        ELSE [ last_item_type |-> None, last_color |-> None,
                               last_gender |-> None, last_query |-> None,
                               last_updated |-> now, history |-> <<>> ]
              after  == sessions'[sid]
              kept(new, old) == IF new \in {None, ""} THEN old ELSE new
          IN  /\ DOMAIN sessions' = DOMAIN sessions \cup {sid}
              /\ after.last_item_type =
                     kept(call'.item_type, before.last_item_type)
              /\ after.last_color = kept(call'.color, before.last_color)
              /\ after.last_gender = kept(call'.gender, before.last_gender)
              /\ after.last_query = call'.query
              /\ after.last_updated = now
              /\ Len(after.history) <= 5
              /\ after.history =
                     IF Len(before.history) < 5
                     THEN before.history \o <<call'.query>>
                     ELSE Tail(before.history) \o <<call'.query>>
              /\ \A other \in DOMAIN sessions \ {sid} :
                     sessions'[other] = sessions[other]
      ]_vars

\* the sixth query of a session has pushed the first one out of its history
C16_Witness ==
    /\ call.op = "update_context"
    /\ call.query = "q6"
    /\ call.session_id \in DOMAIN sessions
    /\ sessions[call.session_id].history = <<"q2", "q3", "q4", "q5", "q6">>
    /\ sessions[call.session_id].last_query = "q6"

(***************************************************************************)
(* Planner runs served in parallel by worker threads that share the        *)
(* session memory.  A thread's context is a reference to the               *)
(* SessionContext object in the map; time does not advance, so no object   *)
(* is deleted and the reference is the entry of the thread's session.      *)
(***************************************************************************)
\* the requests the threads serve at most
MaxThreadRequests == 3

ThreadIds == { "t1", "t2" }

ThreadTexts == { "tshirt", "white", "like this", "jeans" }

ThreadGenders == { "men", "women" }

\* a thread between two requests
IdleThread ==
    [ pc |-> "idle", session_id |-> "", raw |-> "", query |-> "",
      user_gender |-> "both", found |-> FALSE, previous_item |-> None, item_type |-> None,
      gender |-> None ]

\* the thread t is at line pc with locals r
Goto(t, r) == threads' = [threads EXCEPT ![t] = r]

\* the planner run of thread t has returned: the trail keeps the query it
\* was given and the query it searched with
Returned(t, query) ==
    trail' = Append(trail, [thread |-> t,
                            session_id |-> threads[t].session_id,
                            raw |-> threads[t].raw, query |-> query])

InitThreads ==
    /\ state = create_initial_state("", None, "both")
    /\ node = Idle
    /\ trail = <<>>
    /\ sessions = <<>>
    /\ now = 0
    /\ requests = 0
    /\ ticks = 0
    /\ store = BuiltStore
    /\ call = NoCall
    /\ disk = NoDisk
    /\ threads = [t \in ThreadIds |-> IdleThread]
    /\ lock = None

\* a request with a session id reaches the planner on thread t
ThreadStart(t) ==
    /\ threads[t].pc = "idle"
    /\ requests < MaxThreadRequests
    /\ \E text \in ThreadTexts, g \in ThreadGenders, sid \in MemSessionIds :
         Goto(t, [IdleThread EXCEPT !.pc = "get_context",
                                    !.session_id = sid,
                                    !.raw = lower(strip(text)),
                                    !.query = lower(strip(text)),
                                    !.user_gender = g])
    /\ requests' = requests + 1
    /\ UNCHANGED <<state, node, trail, sessions, now, ticks, store, call,
                   disk, lock>>

\* context = memory_service.get_context(session_id): the whole call, under
\* the lock
ThreadGetContext(t) ==
    /\ threads[t].pc = "get_context"
    /\ lock = None
    /\ \E r \in {get_context(sessions, threads[t].session_id, now)} :
         /\ sessions' = r.map
         /\ Goto(t, [threads[t] EXCEPT !.pc = "previous_item",
                                       !.found = r.found])
    /\ UNCHANGED <<state, node, trail, now, requests, ticks, store, call,
                   disk, lock>>

\* previous_item = context.last_item_type if context else None
ThreadReadPrevious(t) ==
    /\ threads[t].pc = "previous_item"
    /\ Goto(t, [threads[t] EXCEPT
                  !.pc = "plan",
                  !.previous_item =
                      IF threads[t].found
                      THEN sessions[threads[t].session_id].last_item_type
                      ELSE None])
    /\ UNCHANGED <<state, node, trail, sessions, now, requests, ticks, store,
                   call, disk, lock>>

\* STEP 0 to STEP 4 up to found_item: the merge, the gender, the item type
ThreadPlan(t) ==
    /\ threads[t].pc = "plan"
    /\ \E query \in { IF IsFollowUp(threads[t].query,
                                    threads[t].previous_item, FALSE)
                      THEN MergedQuery(threads[t].query,
                                       threads[t].previous_item)
                      ELSE threads[t].query } :
         \E found_item \in {FoundItem(query)} :
            /\ Goto(t, [threads[t] EXCEPT
                          !.pc = IF Truthy(found_item) THEN "update_context"
                                 ELSE IF threads[t].found THEN "elif_context"
                                 ELSE "idle",
                          !.query = query,
                          !.item_type = found_item,
                          !.gender = ResolveGender(query,
                                       threads[t].user_gender,
                                       "user_selection").gender])
            /\ IF ~Truthy(found_item) /\ ~threads[t].found
               THEN Returned(t, query) ELSE trail' = trail
    /\ UNCHANGED <<state, node, sessions, now, requests, ticks, store,
                   call, disk, lock>>

\* elif context and context.last_item_type:
ThreadReadElif(t) ==
    /\ threads[t].pc = "elif_context"
    /\ Goto(t, [threads[t] EXCEPT
                  !.pc = IF Truthy(sessions[threads[t].session_id]
                                       .last_item_type)
                         THEN "item_type_argument" ELSE "idle"])
    /\ IF Truthy(sessions[threads[t].session_id].last_item_type)
       THEN trail' = trail ELSE Returned(t, threads[t].query)
    /\ UNCHANGED <<state, node, sessions, now, requests, ticks, store,
                   call, disk, lock>>

\* item_type=context.last_item_type, the argument of the second update
ThreadReadArgument(t) ==
    /\ threads[t].pc = "item_type_argument"
    /\ Goto(t, [threads[t] EXCEPT
                  !.pc = "update_context",
                  !.item_type =
                      sessions[threads[t].session_id].last_item_type])
    /\ UNCHANGED <<state, node, trail, sessions, now, requests, ticks, store,
                   call, disk, lock>>

\* update_context: with self._lock
ThreadAcquire(t) ==
    /\ threads[t].pc = "update_context"
    /\ lock = None
    /\ lock' = t
    /\ Goto(t, [threads[t] EXCEPT !.pc = "fetch"])
    /\ UNCHANGED <<state, node, trail, sessions, now, requests, ticks, store,
                   call, disk>>

\* update_context: the context is fetched, or created and put in the map
ThreadFetch(t) ==
    /\ threads[t].pc = "fetch"
    /\ sessions' = IF threads[t].session_id \in DOMAIN sessions THEN sessions
                   ELSE DictSet(sessions, threads[t].session_id,
                                SessionContext(now))
    /\ Goto(t, [threads[t] EXCEPT !.pc = "fields"])
    /\ UNCHANGED <<state, node, trail, now, requests, ticks, store, call,
                   disk, lock>>

\* update_context: item type, color and gender are written
ThreadFields(t) ==
    /\ threads[t].pc = "fields"
    /\ \E ctx \in {sessions[threads[t].session_id]} :
         sessions' =
           DictSet(sessions, threads[t].session_id,
                   [ctx EXCEPT
                      !.last_item_type = IF Truthy(threads[t].item_type)
                                         THEN threads[t].item_type ELSE @,
                      !.last_gender = IF Truthy(threads[t].gender)
                                      THEN threads[t].gender ELSE @])
    /\ Goto(t, [threads[t] EXCEPT !.pc = "rest"])
    /\ UNCHANGED <<state, node, trail, now, requests, ticks, store, call,
                   disk, lock>>

\* update_context: query, time and history are written; the lock is
\* released; the planner returns
ThreadRest(t) ==
    /\ threads[t].pc = "rest"
    /\ \E ctx \in {sessions[threads[t].session_id]} :
         sessions' =
           DictSet(sessions, threads[t].session_id,
                   [ctx EXCEPT
                      !.last_query = threads[t].query,
                      !.last_updated = now,
                      !.history = LastN(Append(@, threads[t].query),
                                        MAX_HISTORY)])
    /\ lock' = None
    /\ Goto(t, IdleThread)
    /\ Returned(t, threads[t].query)
    /\ UNCHANGED <<state, node, now, requests, ticks, store, call, disk>>

NextThreads ==
    \E t \in ThreadIds :
        \/ ThreadStart(t)
        \/ ThreadGetContext(t)
        \/ ThreadReadPrevious(t)
        \/ ThreadPlan(t)
        \/ ThreadReadElif(t)
        \/ ThreadReadArgument(t)
        \/ ThreadAcquire(t)
        \/ ThreadFetch(t)
        \/ ThreadFields(t)
        \/ ThreadRest(t)

SpecThreads == InitThreads /\ [][NextThreads]_vars

(***************************************************************************)
(* Properties of the parallel planner runs.                                *)
(***************************************************************************)
\* the thread reads a field of its session's context in this step
ReadsContext(t) ==
    /\ threads[t].pc \in {"previous_item", "elif_context",
                          "item_type_argument"}
    /\ threads[t].found
    /\ threads'[t] # threads[t]

\* the thread is inside update_context, between its first and its last
\* write to the context of the session
Mutating(t, session_id) ==
    /\ threads[t].pc = "rest"
    /\ threads[t].session_id = session_id

\* C17 as stated: no request reads a field of a session context while the
\* update of another request is mutating that context, the planner's reads
\* of the remembered item type at the start and at the end of a run
\* included.
C17_MutualExclusion ==
    [][ \A a \in ThreadIds :
            ReadsContext(a) =>
                ~\E b \in ThreadIds \ {a} :
                     Mutating(b, threads[a].session_id)
      ]_vars

(***************************************************************************)
(* The index store on its own: builds, saves and loads in any order, with  *)
(* the two files on disk.                                                  *)
(***************************************************************************)
\* the rows of a dataset handed to build_index
DatasetRows == 2

\* what build_index meets at a row: the image is embedded, the image file
\* is missing, or opening or embedding the image raises
ImageOutcomes == { "ok", "missing", "raises" }

\* the datasets: row i is product 100 + i
Datasets ==
    { [i \in 1..DatasetRows |->
         [position |-> i - 1, id |-> 100 + i,
          gender |-> IF i = 2 THEN "Women" ELSE "Men", image |-> o[i]]] :
      o \in [1..DatasetRows -> ImageOutcomes] }

StoreCall(op, ok, df) == [op |-> op, ok |-> ok, df |-> df]

InitStore ==
    /\ state = create_initial_state("", None, "both")
    /\ node = Idle
    /\ trail = <<>>
    /\ sessions = <<>>
    /\ now = 0
    /\ requests = 0
    /\ ticks = 0
    /\ store = UnbuiltStore
    /\ call = NoCall
    /\ disk = NoDisk
    /\ threads = NoThreads
    /\ lock = None

StoreBuild ==
    /\ \E df \in Datasets :
         \E r \in {build_index(store, df)} :
            /\ store' = r.store
            /\ call' = StoreCall("build_index", r.ok, df)
    /\ UNCHANGED <<state, node, trail, sessions, now, requests, ticks, disk,
                   threads, lock>>

StoreSave ==
    /\ \E outcome \in SaveOutcomes :
         \E r \in {save_to_disk(store, disk, outcome)} :
            /\ disk' = r.disk
            /\ call' = StoreCall("save_to_disk", r.ok, <<>>)
    /\ UNCHANGED <<state, node, trail, sessions, now, requests, ticks, store,
                   threads, lock>>

StoreLoad ==
    /\ \E r \in {load_from_disk(store, disk)} :
         /\ store' = r.store
         /\ call' = StoreCall("load_from_disk", r.ok, <<>>)
    /\ UNCHANGED <<state, node, trail, sessions, now, requests, ticks, disk,
                   threads, lock>>

\* the process starts again: a new FAISSManager, the files stay
StoreRestart ==
    /\ store' = UnbuiltStore
    /\ call' = StoreCall("__init__", TRUE, <<>>)
    /\ UNCHANGED <<state, node, trail, sessions, now, requests, ticks, disk,
                   threads, lock>>

\* the answers the index can give over the rows it holds: every order of
\* the rows, best first
RankingsOf(st) ==
    { [i \in 1..size(st) |-> [idx |-> f[i], score |-> 100 - 10 * i]] :
      f \in { g \in [1..size(st) -> 0..(size(st) - 1)] :
                \A i, j \in 1..size(st) : i # j => g[i] # g[j] } }

\* the k of a search: one hit, two, and the two the retrieval stage uses
SearchKs == { 1, 2, IMAGE_TOP_K, TEXT_TOP_K }

\* the row ids handed to get_metadata
RowIds == -1..(DatasetRows + 1)

StoreSearch ==
    /\ \E k \in SearchKs, ranking \in RankingsOf(store) :
         \E r \in {search(store, ranking, k)} :
            call' = [op |-> "search", ok |-> ~r.raised, df |-> <<>>,
                     k |-> k, results |-> r.results]
    /\ UNCHANGED <<state, node, trail, sessions, now, requests, ticks, store,
                   disk, threads, lock>>

StoreGetMetadata ==
    /\ \E idx \in RowIds :
         \E r \in {get_metadata(store, idx)} :
            call' = [op |-> "get_metadata", ok |-> ~r.raised, df |-> <<>>,
                     idx |-> idx,
                     row |-> IF r.raised THEN <<>> ELSE <<r.row>>]
    /\ UNCHANGED <<state, node, trail, sessions, now, requests, ticks, store,
                   disk, threads, lock>>

NextStore ==
    \/ StoreBuild
    \/ StoreSave
    \/ StoreLoad
    \/ StoreRestart
    \/ StoreSearch
    \/ StoreGetMetadata

SpecStore == InitStore /\ [][NextStore]_vars

(***************************************************************************)
(* Properties of the index store.                                          *)
(***************************************************************************)
\* the ids of the products of a dataset whose image was embedded
Retained(df) ==
    LET kept == SelectSeq(df, LAMBDA row : row.image = "ok")
    IN  [i \in 1..Len(kept) |-> kept[i].id]

\* C18: after a successful build the index has as many rows as the
\* metadata, every metadata row's id is its row position, and the rows are
\* those of the retained items, in order, numbered from 0: an item skipped
\* for a missing image or for an error takes no row in either.
C18_BuildAligned ==
    [][ call'.op = "build_index" /\ call'.ok =>
          /\ is_loaded(store')
          /\ Len(store'.index) = Len(store'.metadata)
          /\ \A i \in 1..Len(store'.metadata) :
                 store'.metadata[i].id = i - 1
          /\ store'.index = Retained(call'.df)
          /\ [i \in 1..Len(store'.metadata) |-> store'.metadata[i].image_id]
                 = Retained(call'.df)
      ]_vars

\* a build that skipped the first item for an error raised while it was
\* processed: the second item is row 0 of the index and of the metadata
C18_Witness ==
    /\ call.op = "build_index"
    /\ call.ok
    /\ call.df[1].image = "raises"
    /\ call.df[2].image = "ok"
    /\ store.index = <<call.df[2].id>>
    /\ Len(store.metadata) = 1
    /\ store.metadata[1].id = 0
    /\ store.metadata[1].image_id = call.df[2].id

\* either file is missing or cannot be read
ArtifactsUnusable ==
    \/ ~disk.index.exists
    \/ ~disk.metadata.exists
    \/ ~disk.index.readable
    \/ ~disk.metadata.readable

\* C19 as stated: when either file is missing or unreadable, load_from_disk
\* returns false and leaves index, metadata and loaded flag as they were.
C19_RestoreFailsClosed ==
    [][ call'.op = "load_from_disk" /\ ArtifactsUnusable =>
          /\ ~call'.ok
          /\ store' = store
      ]_vars

\* C20 as stated: whenever the store reports loaded, the index has as many
\* rows as the metadata, after any sequence of builds, saves (failed ones
\* included) and loads.
C20_LoadedMeansAligned ==
    is_loaded(store) => Len(store.index) = Len(store.metadata)

\* C21: save_to_disk returns false and writes neither file when the store
\* is not loaded or holds zero vectors.
C21_SaveRefusesUnbuilt ==
    [][ /\ call'.op = "save_to_disk"
        /\ (~is_loaded(store) \/ Len(store.index) = 0)
        => /\ ~call'.ok
           /\ disk' = disk
      ]_vars

\* a store emptied by a failed load is asked to save over the files that
\* are on disk: it refuses and the files stay
C21_Witness ==
    /\ call.op = "save_to_disk"
    /\ ~call.ok
    /\ ~is_loaded(store)
    /\ disk.index.exists
    /\ disk.index.readable
    /\ ~disk.metadata.readable

\* C22: build_index returns false when no vector was produced, and then
\* index, metadata and loaded flag of the store are what they were.
C22_EmptyBuildLeavesStore ==
    [][ call'.op = "build_index" /\ Retained(call'.df) = <<>> =>
          /\ ~call'.ok
          /\ store' = store
      ]_vars

\* a loaded store survives a build over a dataset with no usable image
C22_Witness ==
    /\ call.op = "build_index"
    /\ ~call.ok
    /\ \A i \in 1..Len(call.df) : call.df[i].image # "ok"
    /\ is_loaded(store)
    /\ Len(store.index) > 0

\* C23: search never returns a row id outside [0, size), whatever k is, and
\* for k <= size it returns exactly k results in non-increasing similarity.
C23_SearchInRange ==
    [][ call'.op = "search" /\ call'.ok =>
          /\ \A i \in 1..Len(call'.results) :
                call'.results[i].idx \in 0..(size(store) - 1)
          /\ call'.k <= size(store) =>
                /\ Len(call'.results) = call'.k
                /\ \A i \in 1..(Len(call'.results) - 1) :
                      call'.results[i].score >= call'.results[i + 1].score
      ]_vars

\* C24: search raises on every store that is not loaded, and the call that
\* raised changed nothing in the store.
C24_SearchNeedsLoadedStore ==
    [][ call'.op = "search" /\ ~is_loaded(store) =>
          /\ ~call'.ok
          /\ call'.results = <<>>
          /\ store' = store
          /\ disk' = disk
      ]_vars

\* a search on the store a failed load left: both files are on disk, the
\* metadata file cannot be read
C24_Witness ==
    /\ call.op = "search"
    /\ ~call.ok
    /\ ~is_loaded(store)
    /\ disk.index.exists
    /\ disk.metadata.exists
    /\ ~disk.metadata.readable

\* C25: get_metadata fails for every row id outside [0, size) and returns
\* the record stored at the row for every row id inside it.
C25_GetMetadata ==
    [][ call'.op = "get_metadata" =>
          IF call'.idx \in 0..(size(store) - 1)
          THEN /\ call'.ok
               /\ call'.row = <<store.metadata[call'.idx + 1]>>
          ELSE ~call'.ok
      ]_vars

(***************************************************************************)
(* The retrieval stage on its own: a request that the planner has handed   *)
(* to search_executor, over an index that is not loaded, holds fewer rows  *)
(* than a search asks for, or holds as many.                               *)
(***************************************************************************)
\* the rows of the larger catalogue: as many as a text search asks for
LargeRows == 20

LargeCatalog ==
    [i \in 1..LargeRows |->
       [id |-> i - 1,
        gender |-> <<"Men", "Women", "Boys", "Girls", "Unisex">>[((i - 1) % 5) + 1],
        file_exists |-> (i % 4) # 0]]

LargeStore ==
    [is_loaded |-> TRUE, has_index |-> TRUE, has_metadata |-> TRUE,
     index |-> [i \in 1..LargeRows |-> LargeCatalog[i].id],
     metadata |-> LargeCatalog]

\* two answers of the larger index: the rows in order and in reverse order
LargeRankings ==
    { [i \in 1..LargeRows |-> [idx |-> i - 1, score |-> 98 - 4 * (i - 1)]],
      [i \in 1..LargeRows |-> [idx |-> LargeRows - i, score |-> 70 - 3 * (i - 1)]] }

ExecStores == { UnbuiltStore, BuiltStore, LargeStore }

\* what the index of store st can answer
ExecRankings(st) ==
    IF st = LargeStore THEN LargeRankings
    ELSE IF st = BuiltStore THEN Rankings
    ELSE { <<>> }

ExecTexts ==
    { "", "tshirt", "women shirt", "black shirt for the office",
      "wedding outfit for men" }

ExecGenders == { "men", "women", "both" }

ExecReplies ==
    { Raises,
      Reply("direct_search", <<"men blue shirt", "women blue shirt">>, <<>>),
      Reply("outfit_recommendation", <<>>,
            << [category |-> "top",      queries |-> <<"men formal shirt">>],
               [category |-> "watches",  queries |-> <<"men formal watch">>] >>) }

\* the position of the sub-query whose text embedding raises, 0 for none
FailingPositions == 0..2

\* the requests as the planner hands them to the retrieval stage
ExecEntries ==
    { x \in { [state |-> smart_query_understanding_agent(e.state, <<>>, 0,
                                                          reply).state,
               trail |-> Append(e.trail, e.node)] :
              e \in { y \in { AtPlanner(ut, ip, ug, "", o) :
                               ut \in ExecTexts, ip \in ImageInputs,
                               ug \in ExecGenders, o \in CollaboratorOutcomes } :
                        y.node = "smart_query_understanding" },
              reply \in ExecReplies } :
        NextNode("smart_query_understanding", x.state) = "search_executor" }

InitExecutor ==
    /\ \E e \in ExecEntries :
         /\ state = e.state
         /\ trail = e.trail
    /\ node = "search_executor"
    /\ sessions = <<>>
    /\ now = 0
    /\ requests = 1
    /\ ticks = 0
    /\ store \in ExecStores
    /\ call = NoCall
    /\ disk = NoDisk
    /\ threads = NoThreads
    /\ lock = None

Execute ==
    /\ node = "search_executor"
    /\ \E ranking \in ExecRankings(store), failing \in FailingPositions :
         /\ Advance(node, search_executor_agent(state, store, ranking, failing))
         /\ call' = [op |-> "search_executor", ranking |-> ranking,
                     failing |-> failing,
                     searches |-> search_calls(state, store, ranking, failing)]
    /\ UNCHANGED <<sessions, now, requests, ticks, store, disk, threads, lock>>

NextExecutor == Execute

SpecExecutor == InitExecutor /\ [][NextExecutor]_vars

(***************************************************************************)
(* Properties of the retrieval stage.                                      *)
(***************************************************************************)
\* routers/search.py: the response the caller gets for a run that returned s
SearchResponse(s) ==
    [success |-> TRUE, final_response |-> s.final_response,
     search_results_data |-> s.search_results_data, messages |-> s.messages]

\* the response texts of a run that searched and met no failure
NormalResponses ==
    { FinalResponse(m, i) :
        m \in { "image_only", "hybrid", "text_only" },
        i \in { "recommendation", "search" } }

\* C26: a request whose retrieval meets an index that is not loaded gets a
\* failure, not the normal response of a search that found nothing.
C26_UnavailableIsFailure ==
    [][ /\ call'.op = "search_executor"
        /\ ~is_loaded(store)
        /\ \E i \in 1..Len(call'.searches) : call'.searches[i] # <<>>
        => \/ ~SearchResponse(state').success
           \/ SearchResponse(state').final_response \notin NormalResponses
      ]_vars

\* C27: in text_only and hybrid modes there is one group per sub-query, in
\* order, numbered from 1, with the category of the sub-query and the gender
\* filter; a sub-query that fails gets an empty group and a trace entry, and
\* the other groups are what they are when no sub-query fails.
C27_GroupPerSubQuery ==
    [][ call'.op = "search_executor"
        /\ state.search_mode \in { "text_only", "hybrid" } =>
          LET queries == state.search_queries
              groups  == state'.search_results_data
              others  == search_executor_agent(state, store, call'.ranking,
                                               0).search_results_data
          IN  /\ Len(groups) = Len(queries)
              /\ \A i \in 1..Len(groups) :
                    /\ groups[i].query_number = i
                    /\ groups[i].query_text = queries[i]
                    /\ groups[i].category =
                          IF i <= Len(state.query_categories)
                          THEN state.query_categories[i] ELSE "general"
                    /\ groups[i].gender_filter = state.detected_gender
                    /\ groups[i].item_count = Len(groups[i].items)
              /\ call'.failing \in 1..Len(queries) =>
                    /\ groups[call'.failing].items = <<>>
                    /\ state'.messages[Len(state.messages) + 1 + call'.failing]
                          = "Query failed"
                    /\ \A j \in 1..Len(groups) :
                          j # call'.failing => groups[j] = others[j]
      ]_vars

\* the first of two sub-queries failed: its group is empty, the trace says
\* so, the second group has its items and its category
C27_Witness ==
    /\ call.op = "search_executor"
    /\ call.failing = 1
    /\ state.search_mode = "hybrid"
    /\ Len(state.search_results_data) = 2
    /\ state.search_results_data[1].items = <<>>
    /\ state.search_results_data[2].query_number = 2
    /\ state.search_results_data[2].category = "watches"
    /\ state.search_results_data[2].item_count = MAX_ITEMS
    /\ \E m \in 1..Len(state.messages) : state.messages[m] = "Query failed"

\* the gender predicate: the facets a target gender keeps
KeepsFacet(target, facet) ==
    CASE target = "men"   -> facet \in { "men", "male", "boys" }
      [] target = "women" -> facet \in { "women", "female", "girls" }
      [] OTHER            -> TRUE

\* the first n entries of a sequence, all of them when it is shorter
Prefix(seq, n) == SubSeq(seq, 1, IF Len(seq) < n THEN Len(seq) ELSE n)

\* the items of the rows of ranking, best first, that a text search over the
\* store st with the gender target keeps: the candidates are the neighbours
\* whose image file is there
MatchingItems(st, ranking, target) ==
    LET Keeps(e) == /\ KeepsFacet(target, lower(st.metadata[e.idx + 1].gender))
                    /\ st.metadata[e.idx + 1].file_exists
        passing  == SelectSeq(Prefix(ranking, TEXT_TOP_K), Keeps)
    IN  [i \in 1..Len(passing) |->
           [id |-> st.metadata[passing[i].idx + 1].id,
            score |-> passing[i].score,
            gender |-> lower(st.metadata[passing[i].idx + 1].gender)]]

\* C28: in text_only and hybrid modes the items of each group are the first
\* 5 (or fewer, if fewer exist) candidates in rank order that pass the gender
\* predicate, in non-increasing similarity order.  (Stated for the groups
\* whose text embedding and index search succeeded.)
C28_FirstFiveOfGender ==
    [][ /\ call'.op = "search_executor"
        /\ state.search_mode \in { "text_only", "hybrid" }
        /\ is_loaded(store)
        => \A i \in 1..Len(state'.search_results_data) :
              i # call'.failing =>
                LET items == state'.search_results_data[i].items
                IN  /\ items = Prefix(MatchingItems(store, call'.ranking,
                                                    state.detected_gender),
                                      MAX_ITEMS)
                    /\ \A j \in 1..(Len(items) - 1) :
                          items[j].score >= items[j + 1].score
      ]_vars

\* the neighbours a visual search over the store st keeps, best first
SurvivingItems(st, ranking) ==
    LET Keeps(e) == /\ e.score >= MIN_SIMILARITY
                    /\ st.metadata[e.idx + 1].file_exists
        passing  == SelectSeq(Prefix(ranking, IMAGE_TOP_K), Keeps)
    IN  [i \in 1..Len(passing) |->
           [id |-> st.metadata[passing[i].idx + 1].id,
            score |-> passing[i].score,
            gender |-> st.metadata[passing[i].idx + 1].gender]]

\* C29: in image_only mode there is exactly one group; its items are the
\* first 5 survivors, in rank order, of the top 15 neighbours without those
\* below similarity 0.5 and those whose image file is missing; every item
\* has similarity >= 0.5 and there are at most 5.
C29_ImageOnlyGroup ==
    [][ call'.op = "search_executor" /\ state.search_mode = "image_only" =>
          LET groups == state'.search_results_data
          IN  /\ Len(groups) = 1
              /\ groups[1].items =
                    Prefix(SurvivingItems(store, call'.ranking), MAX_ITEMS)
              /\ Len(groups[1].items) <= MAX_ITEMS
              /\ \A j \in 1..Len(groups[1].items) :
                    groups[1].items[j].score >= MIN_SIMILARITY
      ]_vars

search_route(n, s) ==
    IF n = END /\ s.final_response # None
    THEN SearchResponse(s)
    ELSE [success |-> FALSE, final_response |-> "Error",
          search_results_data |-> <<>>, messages |-> <<"Error">>]

\* C31: every run that reaches the end has a final_response, and the search
\* endpoint answers it with a response that carries that text.
C31_StructuredResponse ==
    node = END =>
        /\ state.final_response # None
        /\ search_route(node, state).final_response = state.final_response
        /\ search_route(node, state).messages = state.messages

\* a request that met a failing collaborator at every stage it went
\* through: the index is not loaded, the sub-query failed, and the run still
\* ends with a response text
C31_Witness ==
    /\ node = END
    /\ ~is_loaded(store)
    /\ \E m \in 1..Len(state.messages) : state.messages[m] = "Query failed"
    /\ state.search_results_data # <<>>
    /\ state.final_response = "Search Results"

(***************************************************************************)
(* The index store under threads: one thread builds, saves and loads,      *)
(* statement by statement; another searches and looks a row up, as the     *)
(* retrieval stage does.  FAISSManager holds no lock.                      *)
(***************************************************************************)
\* the thread of the whole-store operations, between two operations
WriterIdle == [pc |-> "idle", embeddings |-> <<>>, metadata |-> <<>>]

\* the reading thread, between two requests
ReaderIdle == [pc |-> "idle", seen_index |-> <<>>, seen_metadata |-> <<>>]

InitStoreThreads ==
    /\ state = create_initial_state("", None, "both")
    /\ node = Idle
    /\ trail = <<>>
    /\ sessions = <<>>
    /\ now = 0
    /\ requests = 0
    /\ ticks = 0
    /\ store = UnbuiltStore
    /\ call = NoCall
    /\ disk = NoDisk
    /\ threads = [w |-> WriterIdle, r |-> ReaderIdle]
    /\ lock = None

\* a step of the writing thread: its position, the store and the files
Writer(next, st, d) ==
    /\ threads' = [threads EXCEPT !.w = next]
    /\ store' = st
    /\ disk' = d
    /\ call' = [op |-> "writer", pc |-> threads.w.pc]
    /\ UNCHANGED <<state, node, trail, sessions, now, requests, ticks, lock>>

\* build_index up to l.149: the loop over the dataset and the test for no
\* embeddings
WBuildStart ==
    /\ threads.w.pc = "idle"
    /\ \E df \in Datasets :
         \E built \in {BuildLoop(df, 1, <<>>, <<>>)} :
            IF built.embeddings = <<>> THEN Writer(WriterIdle, store, disk)
            ELSE Writer([pc |-> "build_153", embeddings |-> built.embeddings,
                         metadata |-> built.metadata], store, disk)

\* l.153-154: self.index = ...; self.index.add(...)
WBuildIndex ==
    /\ threads.w.pc = "build_153"
    /\ Writer([threads.w EXCEPT !.pc = "build_155"],
              [store EXCEPT !.index = threads.w.embeddings, !.has_index = TRUE],
              disk)

\* l.155: self.metadata_df = ...
WBuildMetadata ==
    /\ threads.w.pc = "build_155"
    /\ Writer([threads.w EXCEPT !.pc = "build_156"],
              [store EXCEPT !.metadata = threads.w.metadata,
                            !.has_metadata = TRUE],
              disk)

\* l.156: self._is_loaded = True
WBuildFlag ==
    /\ threads.w.pc = "build_156"
    /\ Writer(WriterIdle, [store EXCEPT !.is_loaded = TRUE], disk)

\* save_to_disk, both files written
WSave ==
    /\ threads.w.pc = "idle"
    /\ Writer(WriterIdle, store, save_to_disk(store, disk, "saved").disk)

\* load_from_disk l.48-50: both files must exist
WLoadStart ==
    /\ threads.w.pc = "idle"
    /\ IF ~disk.index.exists \/ ~disk.metadata.exists
       THEN Writer(WriterIdle, store, disk)
       ELSE Writer([WriterIdle EXCEPT !.pc = "load_54"], store, disk)

\* l.54: self.index = faiss.read_index(...)
WLoadIndex ==
    /\ threads.w.pc = "load_54"
    /\ IF disk.index.readable
       THEN Writer([threads.w EXCEPT !.pc = "load_57"],
                   [store EXCEPT !.index = disk.index.rows, !.has_index = TRUE],
                   disk)
       ELSE Writer(WriterIdle, UnbuiltStore, disk)

\* l.57-58: self.metadata_df = pickle.load(f)
WLoadMetadata ==
    /\ threads.w.pc = "load_57"
    /\ IF disk.metadata.readable
       THEN Writer([threads.w EXCEPT !.pc = "load_60"],
                   [store EXCEPT !.metadata = disk.metadata.rows,
                                 !.has_metadata = TRUE],
                   disk)
       ELSE Writer(WriterIdle, UnbuiltStore, disk)

\* l.60: self._is_loaded = True
WLoadFlag ==
    /\ threads.w.pc = "load_60"
    /\ Writer(WriterIdle, [store EXCEPT !.is_loaded = TRUE], disk)

\* a step of the reading thread
Reader(next) ==
    /\ threads' = [threads EXCEPT !.r = next]
    /\ call' = [op |-> "reader", pc |-> threads.r.pc]
    /\ UNCHANGED <<state, node, trail, sessions, now, requests, ticks, store,
                   disk, lock>>

\* faiss_manager.search: raises when the store is not loaded, else answers
\* from the index it finds
RSearch ==
    /\ threads.r.pc = "idle"
    /\ IF ~is_loaded(store) THEN Reader(ReaderIdle)
       ELSE Reader([pc |-> "searched", seen_index |-> store.index,
                    seen_metadata |-> <<>>])

\* faiss_manager.get_metadata for a row the search returned: raises when
\* the store is not loaded, else reads the table it finds
RGetMetadata ==
    /\ threads.r.pc = "searched"
    /\ IF ~is_loaded(store) THEN Reader(ReaderIdle)
       ELSE Reader([threads.r EXCEPT !.pc = "looked_up",
                                     !.seen_metadata = store.metadata])

\* the request of the reading thread ends
RDone ==
    /\ threads.r.pc = "looked_up"
    /\ Reader(ReaderIdle)

NextStoreThreads ==
    \/ WBuildStart
    \/ WBuildIndex
    \/ WBuildMetadata
    \/ WBuildFlag
    \/ WSave
    \/ WLoadStart
    \/ WLoadIndex
    \/ WLoadMetadata
    \/ WLoadFlag
    \/ RSearch
    \/ RGetMetadata
    \/ RDone

SpecStoreThreads == InitStoreThreads /\ [][NextStoreThreads]_vars

\* the vectors and the table come from the same build: as many rows, and
\* row i of the table is the item of vector i
SameBuild(index, metadata) ==
    /\ Len(index) = Len(metadata)
    /\ \A i \in 1..Len(index) : metadata[i].image_id = index[i]

\* C32: a search and the lookup that follows it never observe the store
\* while a build or load is assigning it: the index the reader searched and
\* the metadata it looked up come from the same build or load.
C32_WritersExcludeReaders ==
    threads.r.pc = "looked_up" =>
        SameBuild(threads.r.seen_index, threads.r.seen_metadata)

(***************************************************************************)
(* Two planner runs in parallel, in a session that an earlier request has  *)
(* written.                                                                *)
(***************************************************************************)
\* the session map after the earlier request "tshirt" of session s1
RaceSessions == update_context(<<>>, "s1", "tshirt", FoundItem("tshirt"), None, "men", 0)

InitRace ==
    /\ state = create_initial_state("", None, "both")
    /\ node = Idle
    /\ trail = <<>>
    /\ sessions = RaceSessions
    /\ now = 0
    /\ requests = MaxThreadRequests - 2
    /\ ticks = 0
    /\ store = BuiltStore
    /\ call = NoCall
    /\ disk = NoDisk
    /\ threads = [t \in ThreadIds |-> IdleThread]
    /\ lock = None

SpecRace == InitRace /\ [][NextThreads]_vars

\* one planner run on its own, in a session that remembers the item type
\* previous: the query it searches with and the item type remembered after
SerialRun(previous, raw) ==
    LET query == IF IsFollowUp(raw, previous, FALSE)
                 THEN MergedQuery(raw, previous) ELSE raw
    IN  [query |-> query,
         item  |-> IF Truthy(FoundItem(query)) THEN FoundItem(query)
                   ELSE previous]

\* the runs a and b, in this order, give the rewrites of a and b and leave
\* the item type final
SerialOrder(a, b, final) ==
    LET first  == SerialRun(RaceSessions["s1"].last_item_type, a.raw)
        second == SerialRun(first.item, b.raw)
    IN  /\ a.query = first.query
        /\ b.query = second.query
        /\ final = second.item

\* C33: two parallel requests of one session are serializable: the item
\* type the session remembers at the end and the query each request
\* searched with are those of one of the two serial orders.
C33_Serializable ==
    /\ Len(trail) = 2
    /\ trail[1].session_id = "s1"
    /\ trail[2].session_id = "s1"
    => \/ SerialOrder(trail[1], trail[2], sessions["s1"].last_item_type)
       \/ SerialOrder(trail[2], trail[1], sessions["s1"].last_item_type)

(***************************************************************************)
(* Further properties of the planner.                                      *)
(***************************************************************************)
\* C34: after every planner run the resolved gender is men, women or both,
\* whatever string the caller sent as the gender selection.
C34_ResolvedGenderDefined ==
    [][ PlannerRuns => state'.detected_gender \in { "men", "women", "both" }
      ]_vars

\* C35: when the resolved gender is men, every item of every returned group
\* has a gender facet in {men, male, boys}; when it is women, in {women,
\* female, girls}; in all three search modes.
C35_ItemsMatchAnnouncedGender ==
    call.op = "search_executor" /\ state.detected_gender \in { "men", "women" }
    => \A g \in 1..Len(state.search_results_data) :
          \A i \in 1..Len(state.search_results_data[g].items) :
             KeepsFacet(state.detected_gender,
                        lower(state.search_results_data[g].items[i].gender))

(***************************************************************************)
(* Further properties of the workflow.                                     *)
(***************************************************************************)
\* C36: in every reachable state a fashion image has its embedding, and a
\* request in image_only or hybrid mode holds an image embedding, so the
\* retrieval stage takes the image path or the fused vector for it.
C36_FashionImageHasEmbedding ==
    /\ state.is_fashion_image = "True" => state.image_embedding # None
    /\ state.search_mode \in { "image_only", "hybrid" } =>
          /\ state.is_fashion_image = "True"
          /\ state.image_embedding # None

\* a hybrid request at the end of its run, retrieval done
C36_Witness ==
    /\ node = END
    /\ state.search_mode = "hybrid"
    /\ state.is_fashion_image = "True"
    /\ state.image_embedding = "image_vector"
    /\ state.final_response = "Smart Matching Results"

\* the category a sub-query of the state s was generated for: on the outfit
\* paths the garment slot its text names, on the direct paths general
CategoryOfQuery(s, q) ==
    IF s.intent_type # "recommendation" THEN "general"
    ELSE CASE Contains(q, "formal shirt") -> "top"
           [] Contains(q, "dress pants")  -> "bottom"
           [] Contains(q, "formal shoes") -> "footwear"
           [] Contains(q, "leather belt") -> "accessories"
           [] Contains(q, "formal watch") -> "watches"
           [] OTHER                       -> "items"

\* C37: after every planner run the sub-query list and the category list
\* have the same length and position i of the category list is the category
\* of sub-query i (generator direct path, generator outfit path, fallback),
\* so the retrieval stage's index test idx < len(categories) always succeeds
\* and its default category is never substituted.
C37_CategoriesAligned ==
    [][ PlannerRuns =>
          LET s == state'
          IN  /\ Len(s.query_categories) = Len(s.search_queries)
              /\ \A i \in 1..Len(s.search_queries) :
                   /\ i <= Len(s.query_categories)
                   /\ s.query_categories[i] =
                        CategoryOfQuery(s, s.search_queries[i])
      ]_vars

\* a generated outfit plan whose one category holds several sub-queries
C37_Witness ==
    /\ node = "search_executor"
    /\ ~FellBack(state)
    /\ state.intent_type = "recommendation"
    /\ Len(state.search_queries) > 1
    /\ \A i \in 1..Len(state.search_queries) :
         state.query_categories[i] = "top"

\* the three terminal nodes that answer without a search
RejectNodes == { "welcome_agent", "non_relevant_agent",
                 "non_relevant_image_agent" }

\* the nodes whose agents call the memory service or the index store
StoreNodes == { "smart_query_understanding", "search_executor" }

\* the nodes the request in flight has run
Ran == { trail[i] : i \in 1..Len(trail) }

\* the request has ended at the node n
EndedAt(n) == node = END /\ trail # <<>> /\ trail[Len(trail)] = n

\* the request carried an image that the validator did not accept
FailedValidation(s) == Truthy(s.image_input) /\ s.is_fashion_image = "False"

\* C38: a request that ends at welcome_agent, non_relevant_agent or
\* non_relevant_image_agent has run no node that calls the memory service or
\* the index store, and the nodes it has run leave the session map and the
\* store as they were; its search mode is unset and its sub-query list and
\* result groups are empty.  An image that fails validation (non-fashion or
\* unreadable) always ends at non_relevant_image_agent, whatever the text.
C38_RejectedRequestsTouchNothing ==
    /\ [](\A n \in RejectNodes : EndedAt(n) =>
            /\ Ran \cap StoreNodes = {}
            /\ state.search_mode = None
            /\ state.search_queries = <<>>
            /\ state.search_results_data = <<>>)
    /\ []((node = END /\ FailedValidation(state)) =>
            EndedAt("non_relevant_image_agent"))
    /\ [][ node \notin StoreNodes =>
             /\ sessions' = sessions
             /\ store' = store
             /\ call' = call ]_vars

\* an unreadable upload sent with a text, rejected after an earlier turn
\* has written the session
C38_Witness ==
    /\ EndedAt("non_relevant_image_agent")
    /\ FailedValidation(state)
    /\ state.image_embedding = None
    /\ state.user_input = "tshirt"
    /\ sessions # <<>>

(***************************************************************************)
(* routers/search.py, routers/voice.py, routers/tryon.py: the temporary    *)
(* files of the request handlers.  disk holds the files that exist and the *)
(* number of temporary files made so far; call holds the handler in        *)
(* flight, its local path variables and the files it has created.          *)
(***************************************************************************)
MaxHandlerCalls == 2

\* a path variable holding None
NoPath == [stem |-> "", suffix |-> ""]

\* the catalog image of product 1, under config.IMAGES_PATH
CatalogImage == [stem |-> "images/1", suffix |-> ".jpg"]

CatalogImages == { CatalogImage }

\* the name tempfile.NamedTemporaryFile gives its next file
TempFile(d, suffix) == [stem |-> "tmp" \o ToString(d.made), suffix |-> suffix]

\* NamedTemporaryFile(delete=False, suffix=...): the file exists from here on
MakeTemp(d, suffix) ==
    [files |-> d.files \cup { TempFile(d, suffix) }, made |-> d.made + 1]

\* os.unlink of the paths of a set
Unlink(d, paths) == [d EXCEPT !.files = d.files \ paths]

\* os.path.exists
Exists(d, path) == path \in d.files

IdleHandler ==
    [op |-> None, pc |-> "idle", created |-> {}]

InitFiles ==
    /\ state = create_initial_state("", None, "both")
    /\ node = Idle
    /\ trail = <<>>
    /\ sessions = <<>>
    /\ now = 0
    /\ requests = 0
    /\ ticks = 0
    /\ store = BuiltStore
    /\ call = IdleHandler
    /\ disk = [files |-> CatalogImages, made |-> 0]
    /\ threads = NoThreads
    /\ lock = None

\* a handler is entered when no other is in flight
Enter(handler) ==
    /\ requests < MaxHandlerCalls
    /\ requests' = requests + 1
    /\ call' = handler
    /\ UNCHANGED <<state, node, trail, sessions, now, ticks, store, disk,
                   threads, lock>>

\* a step of the handler in flight
HandlerStep(next, d) ==
    /\ call' = next
    /\ disk' = d
    /\ UNCHANGED <<state, node, trail, sessions, now, requests, ticks, store,
                   threads, lock>>

\* the outcomes of copying or writing an upload into its temporary file
CopyOutcomes == { "ok", "raises" }

\* POST /api/search: lines 53-55
SearchStart ==
    /\ call.pc \in {"idle", "returned"}
    /\ \E has_image \in BOOLEAN :
         Enter([op |-> "search", pc |-> "save", created |-> {},
                has_image |-> has_image, temp_image_path |-> NoPath])

\* lines 57-62: the file is made, then filled, then its name is kept
SearchSave ==
    /\ call.op = "search" /\ call.pc = "save"
    /\ IF ~call.has_image
       THEN HandlerStep([call EXCEPT !.pc = "run"], disk)
       ELSE \E copy \in CopyOutcomes :
              LET f == TempFile(disk, ".jpg")
                  c == [call EXCEPT !.created = @ \cup {f}]
              IN  IF copy = "raises"
                  THEN HandlerStep([c EXCEPT !.pc = "finally"],
                                   MakeTemp(disk, ".jpg"))
                  ELSE HandlerStep([c EXCEPT !.pc = "run",
                                             !.temp_image_path = f],
                                   MakeTemp(disk, ".jpg"))

\* lines 65-118: run_query and the conversion, returning or raising
SearchRun ==
    /\ call.op = "search" /\ call.pc = "run"
    /\ HandlerStep([call EXCEPT !.pc = "finally"], disk)

\* lines 120-126
SearchFinally ==
    /\ call.op = "search" /\ call.pc = "finally"
    /\ HandlerStep(
         [call EXCEPT !.pc = "returned"],
         IF call.temp_image_path # NoPath /\ Exists(disk, call.temp_image_path)
         THEN Unlink(disk, { call.temp_image_path })
         ELSE disk)

\* the suffixes of the uploaded audio
AudioSuffixes == { ".webm", ".wav" }

\* POST /api/voice/transcribe: lines 59-68
VoiceStart ==
    /\ call.pc \in {"idle", "returned"}
    /\ \E ext \in AudioSuffixes :
         Enter([op |-> "transcribe", pc |-> "save", created |-> {},
                ext |-> ext, temp_path |-> NoPath, wav_path |-> NoPath])

\* lines 70-72
VoiceSave ==
    /\ call.op = "transcribe" /\ call.pc = "save"
    /\ \E copy \in CopyOutcomes :
         LET f == TempFile(disk, call.ext)
             c == [call EXCEPT !.created = @ \cup {f}]
         IN  IF copy = "raises"
             THEN HandlerStep([c EXCEPT !.pc = "finally"],
                              MakeTemp(disk, call.ext))
             ELSE HandlerStep([c EXCEPT !.pc = "convert", !.temp_path = f],
                              MakeTemp(disk, call.ext))

\* convert_to_wav (lines 18-48): the path with its suffix replaced when
\* ffmpeg or pydub wrote it, else the input path
convert_to_wav(input_path, converted) ==
    IF converted THEN [stem |-> input_path.stem, suffix |-> ".wav"]
    ELSE input_path

\* lines 75-78
VoiceConvert ==
    /\ call.op = "transcribe" /\ call.pc = "convert"
    /\ IF lower(call.ext) # ".wav"
       THEN \E converted \in BOOLEAN :
              LET w == convert_to_wav(call.temp_path, converted)
              IN  HandlerStep(
                    [call EXCEPT !.pc = "transcribe", !.wav_path = w,
                                 !.created = @ \cup {w}],
                    [disk EXCEPT !.files = @ \cup {w}])
       ELSE HandlerStep([call EXCEPT !.pc = "transcribe",
                                     !.wav_path = call.temp_path], disk)

\* lines 81-96: transcribe_audio returns a text or None, or raises
VoiceTranscribe ==
    /\ call.op = "transcribe" /\ call.pc = "transcribe"
    /\ HandlerStep([call EXCEPT !.pc = "finally"], disk)

\* the paths the loop of lines 100-105 unlinks
VoiceUnlinked(c, d) ==
    { path \in { c.temp_path, c.wav_path } :
        path # NoPath /\ Exists(d, path) /\ path # c.wav_path }

\* lines 98-105
VoiceFinally ==
    /\ call.op = "transcribe" /\ call.pc = "finally"
    /\ HandlerStep([call EXCEPT !.pc = "returned"],
                   Unlink(disk, VoiceUnlinked(call, disk)))

\* the garment of a try-on request: an upload, a catalog product, or a
\* product id without an image
GarmentSources == { "upload", "catalog", "unknown_product" }

\* POST /api/tryon/generate: lines 128-132, after the configuration checks
TryonStart ==
    /\ call.pc \in {"idle", "returned"}
    /\ \E garment \in GarmentSources :
         Enter([op |-> "tryon", pc |-> "person", created |-> {},
                garment_image |-> (garment = "upload"),
                garment_product_id |-> garment,
                person_path |-> NoPath, garment_path |-> NoPath])

\* line 134 with save_uploaded_file (lines 31-37)
TryonSavePerson ==
    /\ call.op = "tryon" /\ call.pc = "person"
    /\ \E copy \in CopyOutcomes :
         LET f == TempFile(disk, ".jpg")
             c == [call EXCEPT !.created = @ \cup {f}]
         IN  IF copy = "raises"
             THEN HandlerStep([c EXCEPT !.pc = "finally"],
                              MakeTemp(disk, ".jpg"))
             ELSE HandlerStep([c EXCEPT !.pc = "garment", !.person_path = f],
                              MakeTemp(disk, ".jpg"))

\* lines 137-148
TryonGarment ==
    /\ call.op = "tryon" /\ call.pc = "garment"
    /\ IF call.garment_image
       THEN \E copy \in CopyOutcomes :
              LET f == TempFile(disk, ".jpg")
                  c == [call EXCEPT !.created = @ \cup {f}]
              IN  IF copy = "raises"
                  THEN HandlerStep([c EXCEPT !.pc = "finally"],
                                   MakeTemp(disk, ".jpg"))
                  ELSE HandlerStep([c EXCEPT !.pc = "generate",
                                             !.garment_path = f],
                                   MakeTemp(disk, ".jpg"))
       ELSE LET path == IF call.garment_product_id = "catalog"
                        THEN CatalogImage
                        ELSE [stem |-> "images/0", suffix |-> ".jpg"]
            IN  HandlerStep(
                  [call EXCEPT !.garment_path = path,
                               !.pc = IF Exists(disk, path) THEN "generate"
                                      ELSE "finally"],
                  disk)

\* lines 151-235: the task, the polling and the download, returning or
\* raising
TryonGenerate ==
    /\ call.op = "tryon" /\ call.pc = "generate"
    /\ HandlerStep([call EXCEPT !.pc = "finally"], disk)

\* cleanup_temp_file (lines 40-46)
cleanup_temp_file(d, file_path) ==
    IF file_path # NoPath /\ Exists(d, file_path)
    THEN Unlink(d, { file_path }) ELSE d

\* lines 237-241
TryonFinally ==
    /\ call.op = "tryon" /\ call.pc = "finally"
    /\ HandlerStep(
         [call EXCEPT !.pc = "returned"],
         LET d1 == cleanup_temp_file(disk, call.person_path)
         IN  IF call.garment_image
             THEN cleanup_temp_file(d1, call.garment_path)
             ELSE d1)

NextFiles ==
    \/ SearchStart
    \/ SearchSave
    \/ SearchRun
    \/ SearchFinally
    \/ VoiceStart
    \/ VoiceSave
    \/ VoiceConvert
    \/ VoiceTranscribe
    \/ VoiceFinally
    \/ TryonStart
    \/ TryonSavePerson
    \/ TryonGarment
    \/ TryonGenerate
    \/ TryonFinally

SpecFiles == InitFiles /\ [][NextFiles]_vars

\* C39: every temporary file a request handler creates is removed before
\* the handler returns, on success and on every error path (the uploaded
\* image of the search endpoint, the uploaded and converted audio of the
\* transcribe endpoint, the uploaded person and garment images of the
\* try-on endpoint), and the try-on endpoint never deletes a catalog
\* garment image.
C39_TempFilesRemoved ==
    /\ call.pc = "returned" => call.created \cap disk.files = {}
    /\ CatalogImages \subseteq disk.files

(***************************************************************************)
(* services/memory_service.py, get_memory_service: the module global       *)
(* _memory_service and the MemoryService instances made so far, with       *)
(* concurrent callers.  sessions holds the global (0 for None, else the    *)
(* number of the instance) and the session map of every instance; threads  *)
(* holds each caller's position and the instance it was handed.            *)
(***************************************************************************)
MaxServiceCalls == 4

\* _memory_service = None
NoService == 0

\* the queries the callers store
ServiceTexts == { "tshirt", "jeans" }

IdleCaller ==
    [pc |-> "idle", memory_service |-> NoService, after_write |-> FALSE,
     found |-> FALSE]

InitSingleton ==
    /\ state = create_initial_state("", None, "both")
    /\ node = Idle
    /\ trail = <<>>
    /\ sessions = [_memory_service |-> NoService, instances |-> <<>>]
    /\ now = 0
    /\ requests = 0
    /\ ticks = 0
    /\ store = BuiltStore
    /\ call = NoCall
    /\ disk = NoDisk
    /\ threads = [t \in ThreadIds |-> IdleCaller]
    /\ lock = None

\* a context of session s1 has been written through some instance
Written ==
    \E i \in 1..Len(sessions.instances) : "s1" \in DOMAIN sessions.instances[i]

\* a step of the caller t
CallerStep(t, next, module) ==
    /\ threads' = [threads EXCEPT ![t] = next]
    /\ sessions' = module
    /\ UNCHANGED <<state, node, trail, now, ticks, store, call, disk, lock>>

\* the planner calls get_memory_service (query_understanding.py line 40)
GmsCall(t) ==
    /\ threads[t].pc \in {"idle", "done"}
    /\ requests < MaxServiceCalls
    /\ requests' = requests + 1
    /\ CallerStep(t, [IdleCaller EXCEPT !.pc = "check",
                                        !.after_write = Written], sessions)

\* if _memory_service is None:
GmsCheck(t) ==
    /\ threads[t].pc = "check"
    /\ requests' = requests
    /\ CallerStep(t, [threads[t] EXCEPT !.pc =
                        IF sessions._memory_service = NoService
                        THEN "create" ELSE "return"], sessions)

\* _memory_service = MemoryService()
GmsCreate(module) ==
    [_memory_service |-> Len(module.instances) + 1,
     instances       |-> Append(module.instances, <<>>)]

GmsAssign(t) ==
    /\ threads[t].pc = "create"
    /\ requests' = requests
    /\ CallerStep(t, [threads[t] EXCEPT !.pc = "return"], GmsCreate(sessions))

\* return _memory_service
GmsReturn(t) ==
    /\ threads[t].pc = "return"
    /\ requests' = requests
    /\ CallerStep(t, [threads[t] EXCEPT !.pc = "have",
                         !.memory_service = sessions._memory_service],
                  sessions)

\* memory_service.get_context(session_id) on the instance handed out
SvcGetContext(t) ==
    /\ threads[t].pc = "have"
    /\ requests' = requests
    /\ LET i == threads[t].memory_service
           r == get_context(sessions.instances[i], "s1", now)
       IN  CallerStep(t, [threads[t] EXCEPT !.pc = "read",
                                            !.found = r.found],
                      [sessions EXCEPT !.instances[i] = r.map])

\* memory_service.update_context(...) on the same instance
SvcUpdateContext(t) ==
    /\ threads[t].pc = "read"
    /\ requests' = requests
    /\ \E query \in ServiceTexts :
         LET i == threads[t].memory_service
         IN  CallerStep(t, [threads[t] EXCEPT !.pc = "done"],
                        [sessions EXCEPT !.instances[i] =
                           update_context(@, "s1", query, FoundItem(query),
                                          None, "men", now)])

NextSingleton ==
    \E t \in ThreadIds :
       \/ GmsCall(t)
       \/ GmsCheck(t)
       \/ GmsAssign(t)
       \/ GmsReturn(t)
       \/ SvcGetContext(t)
       \/ SvcUpdateContext(t)

SpecSingleton == InitSingleton /\ [][NextSingleton]_vars

\* C40: get_memory_service creates at most one MemoryService per process
\* under any interleaving of concurrent first calls, so a get_context of a
\* session made by a call that began after a context of the session had
\* been written finds that context.
C40_OneMemoryService ==
    /\ Len(sessions.instances) <= 1
    /\ \A t \in ThreadIds :
         (threads[t].pc = "read" /\ threads[t].after_write) =>
            threads[t].found

====
